---- MODULE Spec2Model ----
(***************************************************************************)
(* MiniCRM: export of CRM records into Google Sheets.                      *)
(*                                                                         *)
(* Part 1: column addressing (_col_letter).                                *)
(* Part 2: the export pipeline of crm/services/export_service.py as called *)
(*         by the endpoints of crm/routers/export.py, run by concurrent    *)
(*         request handlers against the remote Drive / Sheets service.     *)
(* Part 3: concurrent saves of the settings file (routers/settings.py).    *)
(* Part 4: the value matrix of one export, from the store to the write.    *)
(* Part 5: the report list of list_export_files.                           *)
(***************************************************************************)
EXTENDS Integers, Sequences, FiniteSets, TLC

VARIABLES
    colN,               \* argument handed to _col_letter
    colOut,             \* what the call produced: [err, letters], or NotCalled
    settings,           \* content of google_export_settings.json
    svcFile,            \* state of the file that settings.credentials_path names
    envCred,            \* service key found through ENV / *excel-factory*.json
    secretFile,         \* state of the file that settings.client_secret_path names
    userToken,          \* state of token_drive_user.json
    clock,              \* wall clock, in ticks (SubSecond ticks per second)
    files,              \* documents held by the remote Drive, in creation order
    pc,                 \* per export request: position in export_to_google_sheet
    section,            \* per export request: section of the endpoint
    startTick,          \* per export request: clock value read by datetime.now()
    creds_path,         \* per export request: local creds_path
    client_secret_path, \* per export request: local client_secret_path
    title_with_ts,      \* per export request: local title_with_ts
    spreadsheet_id,     \* per export request: local spreadsheet_id (0: unset)
    calls,              \* per export request: remote calls issued, in order
    failedAt,           \* per export request: step at which an exception escaped
    finishedBefore,     \* per export request: the requests answered before it began
    response,           \* per export request: HTTP response of the endpoint
    spc,                \* per settings save: position in save_google_settings
    payload,            \* per settings save: the request body
    data,               \* per settings save: local dict data
    committed,          \* the settings file as the last completed write left it
    fileBeforeWrite,    \* per settings save: committed, just before the save's own write
    writeOrder,         \* settings saves in the order their writes completed
    tableSection,       \* the section whose table of the store is observed
    table,              \* that table: record id -> record
    nextId,             \* the id AUTOINCREMENT gives to the next record
    caller,             \* who called the export function: None before the call
    headers,            \* argument headers of the export function
    rows_data,          \* argument rows_data: the records, as dicts
    rows,               \* argument rows: one list of cells per record
    values,             \* the value matrix handed to write_range
    range_name,         \* the range handed to write_range
    fmt,                \* the keyword arguments handed to the formatting call
    layoutResp,         \* HTTP status of the endpoint (0: none yet)
    drive,              \* documents of the remote Drive as a report list sees them
    listSection,        \* section asked of the report list (None: not asked)
    listCalls,          \* clients built and remote calls issued by that request
    listResp,           \* answer of the report list endpoint
    db,                 \* the record store: section -> (record id -> row)
    seq,                \* sqlite_sequence: section -> the last id AUTOINCREMENT gave
    now,                \* the store's clock: writes committed so far
    apiResp,            \* the last answer of a record endpoint
    made,               \* section -> (id -> the body submitted to the create that returned it)
    removed,            \* section -> the ids a delete has answered 200 for
    changed,            \* section -> the ids an update, archive or complete has written
    getResp             \* the last answer of GET /settings/google

colVars == <<colN, colOut>>
envVars == <<settings, svcFile, envCred, secretFile, userToken>>
exportVars == <<clock, files, pc, section, startTick, creds_path, client_secret_path,
                title_with_ts, spreadsheet_id, calls, failedAt, finishedBefore, response>>
saveVars == <<spc, payload, data, committed, fileBeforeWrite, writeOrder>>
layoutVars == <<tableSection, table, nextId, caller, headers, rows_data, rows, values,
                range_name, fmt, layoutResp>>
listVars == <<drive, listSection, listCalls, listResp>>
storeVars == <<db, seq, now, apiResp, made, removed, changed>>
getVars == <<getResp>>
otherVars == <<storeVars, getVars>>
restVars == <<saveVars, layoutVars, listVars, otherVars>>
vars == <<colVars, envVars, exportVars, restVars>>

None == "None"

(***************************************************************************)
(* Bounds                                                                  *)
(***************************************************************************)
MaxCol == 730
NegCols == 3
MaxClock == 3
SubSecond == 2

(***************************************************************************)
(* Part 1: column addressing                                               *)
(***************************************************************************)
NotCalled == [err |-> "NotCalled", letters |-> <<>>]

RECURSIVE ColLetterLoopMod(_, _)
\* the off-by-one variant: n mod 26 in place of (n - 1) mod 26
ColLetterLoopMod(n, s) ==
    IF n > 0 THEN ColLetterLoopMod(n \div 26, <<65 + (n % 26)>> \o s) ELSE s

RECURSIVE ColLetterLoop(_, _)
\* while n > 0: n, r = divmod(n - 1, 26); s = chr(65 + r) + s
ColLetterLoop(n, s) ==
    IF n > 0 THEN ColLetterLoop((n - 1) \div 26, <<65 + ((n - 1) % 26)>> \o s) ELSE s

\* a variant without the 'or "A"' default
ColLetterNoDefault(n) == ColLetterLoop(n, <<>>)

\* _col_letter(n): letters as sequences of code points (65 = "A"); return s or "A"
ColLetter(n) ==
    LET s == ColLetterLoop(n, <<>>) IN IF s = <<>> THEN <<65>> ELSE s

RECURSIVE LetterToIndexFrom(_, _)
LetterToIndexFrom(s, acc) ==
    IF s = <<>> THEN acc ELSE LetterToIndexFrom(Tail(s), acc * 26 + (Head(s) - 64))

\* the standard inverse: A -> 1, Z -> 26, AA -> 27
LetterToIndex(s) == LetterToIndexFrom(s, 0)

\* a call of _col_letter: the function has no raise statement, it always returns
ColLetterCall ==
    /\ colOut = NotCalled
    /\ colOut' = [err |-> None, letters |-> ColLetter(colN)]
    /\ UNCHANGED <<colN, envVars, exportVars, restVars>>

(***************************************************************************)
(* Part 2: the export pipeline                                             *)
(***************************************************************************)
\* the two request handlers of the worker pool that run an export each
Exports == {1, 2}
Sections == {"clients", "deals", "tasks"}
SettingValues == {None, "", "path"}

\* the title each endpoint passes (the Cyrillic prefixes, transliterated)
SectionTitle(s) ==
    CASE s = "clients" -> "CRM - Otchet Klienty"
      [] s = "deals" -> "CRM - Otchet Sdelki"
      [] s = "tasks" -> "CRM - Otchet Zadachi"

\* Python truthiness of an optional string: None and "" are falsy
Truthy(v) == v \notin {None, ""}

\* _resolve_creds_path: None and "" come back as they are, a path stays a path
ResolveCredsPath(v) == v

\* strftime('%Y-%m-%d %H-%M-%S') with the seconds dropped
StrftimeMinutes(t) == t \div (SubSecond * 60)

\* strftime('%Y-%m-%d %H-%M-%S'): the instant cut to whole seconds
Strftime(t) == t \div SubSecond

\* f"{title} {datetime.now().strftime(...)}"
TitleWithTs(title, t) == [prefix |-> title, ts |-> Strftime(t)]

\* a branch on creds_path in place of client_secret_path
IsDelegatedByCreds(e) == Truthy(creds_path[e])

\* line 157: if client_secret_path
IsDelegated(e) == Truthy(client_secret_path[e])

\* GoogleDriveUserClient.__init__ / _get_user_credentials: a valid saved token is
\* used as it is; without one the OAuth flow reads the client secret file
UserCredsOutcome ==
    IF userToken = "valid" THEN "ok"
    ELSE IF secretFile = "valid" THEN "ok" ELSE "InvalidCredentials"

\* a lookup whose glob takes any *.json of config/ (the settings file) for the key
ServiceCredsOutcomesAnyJson(p) ==
    IF p = None
    THEN CASE envCred = "none" -> {"InvalidCredentials"}
           [] envCred = "valid" -> {"ok"}
           [] envCred = "malformed" -> {"InvalidCredentials"}
    ELSE IF p = ""
    THEN {"InvalidCredentials"}
    ELSE CASE svcFile = "valid" -> {"ok"}
           [] svcFile = "malformed" -> {"InvalidCredentials"}
           [] svcFile = "noemail" -> {"ok", "InvalidCredentials"}

\* _resolve_credentials_path + _build_service of the service-account clients:
\* the outcomes of building a client for the given credentials_path
ServiceCredsOutcomes(p) ==
    IF p = None
    THEN CASE envCred = "none" -> {"MissingCredentials"}
           [] envCred = "valid" -> {"ok"}
           [] envCred = "malformed" -> {"InvalidCredentials"}
    ELSE IF p = ""
    THEN {"InvalidCredentials"}
    ELSE CASE svcFile = "valid" -> {"ok"}
           [] svcFile = "malformed" -> {"InvalidCredentials"}
           [] svcFile = "noemail" -> {"ok", "InvalidCredentials"}

\* _get_service_account_email: "error" when json.loads raises
ServiceAccountEmail ==
    CASE svcFile = "valid" -> "sa@project"
      [] svcFile = "noemail" -> ""
      [] svcFile = "malformed" -> "error"

\* the methods GoogleDriveUserClient defines
DriveUserClientMethods ==
    {"list_files", "get_folder_id_by_name", "create_google_doc", "create_google_sheet"}

\* the parameters GoogleSheetsClient.format_report_table accepts
FormatReportTableParams == {"sheet_name", "num_rows", "num_cols"}

\* the keyword arguments export_to_google_sheet passes to format_report_table
FormatReportTableKwargs ==
    {"sheet_name", "num_rows", "num_cols", "data_start_row", "summary_rows",
     "title_row_index", "report_title", "status_col_index", "status_colors",
     "data_rows_values", "status_text_color"}

\* the identifier the remote service gives the next created document
FreshId == Len(files) + 1

Call(op, doc, who) == [op |-> op, doc |-> doc, identity |-> who]

\* a document targeted through a handle shared by all requests
TargetDocShared(e) == Len(files)

\* the document the Sheets client of request e is bound to (line 172)
TargetDoc(e) == spreadsheet_id[e]

\* a Sheets client built from the settings file as it is when the client is built
SheetsCredentialsReread(e) == ResolveCredsPath(settings.credentials_path)

\* the credentials_path the Sheets client of request e is built with
\* (line 172): the local creds_path of lines 150-151
SheetsCredentials(e) == creds_path[e]

\* the order of the pipeline's steps
StepIndex(s) ==
    CASE s = "create" -> 1
      [] s = "share" -> 2
      [] s = "sheets" -> 3
      [] s = "write" -> 4
      [] s = "format" -> 5
      [] OTHER -> 0

\* the step a remote call belongs to
OpStep(op) ==
    CASE op = "create" -> "create"
      [] op = "share" -> "share"
      [] op = "get" -> "sheets"
      [] op = "write" -> "write"
      [] op = "format" -> "format"

\* an aborting handler that also deletes the document it created
AbortWithRollback(e, err) ==
    /\ pc' = [pc EXCEPT ![e] = "failed"]
    /\ failedAt' = [failedAt EXCEPT ![e] = pc[e]]
    /\ response' = [response EXCEPT ![e] = [status |-> 500, detail |-> err, body |-> None]]
    /\ files' = [i \in DOMAIN files |->
                    IF i = spreadsheet_id[e] THEN [files[i] EXCEPT !.trashed = TRUE]
                    ELSE files[i]]
    /\ UNCHANGED <<spreadsheet_id>>

\* an exception leaves export_to_google_sheet: the endpoint's except clause
\* answers HTTPException(500, detail=str(e)); nothing is undone
Abort(e, err) ==
    /\ pc' = [pc EXCEPT ![e] = "failed"]
    /\ failedAt' = [failedAt EXCEPT ![e] = pc[e]]
    /\ response' = [response EXCEPT ![e] = [status |-> 500, detail |-> err, body |-> None]]
    /\ UNCHANGED <<files, spreadsheet_id>>

\* POST /export/<section>: lines 150-155, settings read once and title computed
StartExport(e, s) ==
    /\ pc[e] = "idle"
    /\ pc' = [pc EXCEPT ![e] = "create"]
    /\ section' = [section EXCEPT ![e] = s]
    /\ creds_path' = [creds_path EXCEPT ![e] = ResolveCredsPath(settings.credentials_path)]
    /\ client_secret_path' =
           [client_secret_path EXCEPT ![e] = ResolveCredsPath(settings.client_secret_path)]
    /\ startTick' = [startTick EXCEPT ![e] = clock]
    /\ title_with_ts' = [title_with_ts EXCEPT ![e] = TitleWithTs(SectionTitle(s), clock)]
    /\ finishedBefore' = [finishedBefore EXCEPT ![e] =
                              {x \in Exports : pc[x] \in {"returned", "failed"}}]
    /\ UNCHANGED <<colVars, restVars, envVars, clock, files, spreadsheet_id, calls,
                   failedAt, response>>

NewFile(e, who) ==
    [id |-> FreshId, name |-> title_with_ts[e], owner |-> who, creator |-> e,
     writers |-> {}, trashed |-> FALSE, written |-> FALSE]

\* lines 157-161 and 166-170: build the Drive client of the chosen identity and
\* create the document; the remote service accepts or rejects the call
CreateDocument(e) ==
    /\ pc[e] = "create"
    /\ LET who == IF IsDelegated(e) THEN "user" ELSE "service"
           outcomes == IF IsDelegated(e) THEN {UserCredsOutcome}
                       ELSE ServiceCredsOutcomes(creds_path[e])
       IN \E o \in outcomes, remoteOk \in BOOLEAN :
            IF o # "ok"
            THEN /\ Abort(e, o)
                 /\ UNCHANGED calls
            ELSE /\ calls' = [calls EXCEPT ![e] =
                                 Append(@, Call("create", IF remoteOk THEN FreshId ELSE 0, who))]
                 /\ IF remoteOk
                    THEN /\ files' = Append(files, NewFile(e, who))
                         /\ spreadsheet_id' = [spreadsheet_id EXCEPT ![e] = FreshId]
                         /\ pc' = [pc EXCEPT ![e] = IF IsDelegated(e) THEN "share" ELSE "sheets"]
                         /\ UNCHANGED <<failedAt, response>>
                    ELSE Abort(e, "RemoteError")
    /\ UNCHANGED <<colVars, restVars, envVars, clock, section, startTick, creds_path,
                   client_secret_path, title_with_ts, finishedBefore>>

\* lines 162-165: in the delegated branch, read the service account's email and
\* call drive_user.share_file_with_email, a method the client may not define
ShareWithService(e) ==
    /\ pc[e] = "share"
    /\ \E remoteOk \in BOOLEAN :
         IF ~Truthy(creds_path[e]) \/ ServiceAccountEmail = ""
         THEN /\ pc' = [pc EXCEPT ![e] = "sheets"]
              /\ UNCHANGED <<files, spreadsheet_id, calls, failedAt, response>>
         ELSE IF ServiceAccountEmail = "error"
         THEN /\ Abort(e, "InvalidCredentials")
              /\ UNCHANGED calls
         ELSE IF "share_file_with_email" \notin DriveUserClientMethods
         THEN /\ Abort(e, "AttributeError")
              /\ UNCHANGED calls
         ELSE /\ calls' = [calls EXCEPT ![e] = Append(@, Call("share", spreadsheet_id[e], "user"))]
              /\ IF remoteOk
                 THEN /\ files' = [files EXCEPT ![spreadsheet_id[e]].writers = @ \cup {"service"}]
                      /\ pc' = [pc EXCEPT ![e] = "sheets"]
                      /\ UNCHANGED <<spreadsheet_id, failedAt, response>>
                 ELSE Abort(e, "RemoteError")
    /\ UNCHANGED <<colVars, restVars, envVars, clock, section, startTick, creds_path,
                   client_secret_path, title_with_ts, finishedBefore>>

\* lines 172-173: build the Sheets client under the service identity and ask the
\* remote service for the sheet titles of the document
OpenSheet(e) ==
    /\ pc[e] = "sheets"
    /\ \E o \in ServiceCredsOutcomes(SheetsCredentials(e)), remoteOk \in BOOLEAN :
         IF o # "ok"
         THEN /\ Abort(e, o)
              /\ UNCHANGED calls
         ELSE /\ calls' = [calls EXCEPT ![e] = Append(@, Call("get", TargetDoc(e), "service"))]
              /\ IF remoteOk
                 THEN /\ pc' = [pc EXCEPT ![e] = "write"]
                      /\ UNCHANGED <<files, spreadsheet_id, failedAt, response>>
                 ELSE Abort(e, "RemoteError")
    /\ UNCHANGED <<colVars, restVars, envVars, clock, section, startTick, creds_path,
                   client_secret_path, title_with_ts, finishedBefore>>

\* lines 174-200: lay the matrix out and write it in one values.update call
WriteValues(e) ==
    /\ pc[e] = "write"
    /\ \E remoteOk \in BOOLEAN :
         /\ calls' = [calls EXCEPT ![e] = Append(@, Call("write", TargetDoc(e), "service"))]
         /\ IF remoteOk
            THEN /\ files' = [files EXCEPT ![TargetDoc(e)].written = TRUE]
                 /\ pc' = [pc EXCEPT ![e] = "format"]
                 /\ UNCHANGED <<spreadsheet_id, failedAt, response>>
            ELSE Abort(e, "RemoteError")
    /\ UNCHANGED <<colVars, restVars, envVars, clock, section, startTick, creds_path,
                   client_secret_path, title_with_ts, finishedBefore>>

\* lines 215-229: call format_report_table with the keyword arguments of the call
\* site (Python raises TypeError on a keyword the method does not accept), then
\* return the result
FormatReport(e) ==
    /\ pc[e] = "format"
    /\ \E remoteOk \in BOOLEAN :
         IF ~(FormatReportTableKwargs \subseteq FormatReportTableParams)
         THEN /\ Abort(e, "TypeError")
              /\ UNCHANGED calls
         ELSE /\ calls' = [calls EXCEPT ![e] = Append(@, Call("format", TargetDoc(e), "service"))]
              /\ IF remoteOk
                 THEN /\ pc' = [pc EXCEPT ![e] = "returned"]
                      /\ response' = [response EXCEPT ![e] =
                             [status |-> 200, detail |-> None,
                              body |-> [spreadsheet_id |-> spreadsheet_id[e],
                                        webViewLink |-> spreadsheet_id[e],
                                        title |-> title_with_ts[e]]]]
                      /\ UNCHANGED <<files, spreadsheet_id, failedAt>>
                 ELSE Abort(e, "RemoteError")
    /\ UNCHANGED <<colVars, restVars, envVars, clock, section, startTick, creds_path,
                   client_secret_path, title_with_ts, finishedBefore>>

\* time passes
Tick ==
    /\ clock < MaxClock
    /\ clock' = clock + 1
    /\ UNCHANGED <<colVars, restVars, envVars, files, pc, section, startTick, creds_path,
                   client_secret_path, title_with_ts, spreadsheet_id, calls, failedAt,
                   finishedBefore, response>>

(***************************************************************************)
(* Part 3: the settings file and its saves                                 *)
(***************************************************************************)
\* the two request handlers that save settings concurrently
Savers == {1, 2}

\* a key that the JSON object does not hold
Absent == "Absent"

AllowedKeys == {"folder_id", "credentials_path", "client_secret_path"}

\* the keys a file or a request body is observed on: the allow-list and one other key
SettingKeys == AllowedKeys \cup {"extra"}

\* an object without keys: {} , also what a missing or unparsable file reads as
EmptyDict == [k \in SettingKeys |-> Absent]

NoSave == [k \in SettingKeys |-> Absent]

SaveIdle ==
    /\ spc = [w \in Savers |-> "idle"]
    /\ payload = [w \in Savers |-> NoSave]
    /\ data = [w \in Savers |-> EmptyDict]
    /\ committed = EmptyDict
    /\ fileBeforeWrite = [w \in Savers |-> EmptyDict]
    /\ writeOrder = <<>>

(***************************************************************************)
(* Part 4: the store table and the export that reads it                    *)
(***************************************************************************)
NoFmt == [data_start_row |-> 0, summary_rows |-> 0, num_rows |-> 0, num_cols |-> 0,
          status_col_index |-> 0 - 1]

NoRange == [col |-> <<>>, row |-> 0]

\* no export has been called
NotExported ==
    /\ caller = None
    /\ headers = <<>>
    /\ rows_data = <<>>
    /\ rows = <<>>
    /\ values = <<>>
    /\ range_name = NoRange
    /\ fmt = NoFmt
    /\ layoutResp = 0

LayoutIdle ==
    /\ tableSection = None
    /\ table = <<>>
    /\ nextId = 1
    /\ NotExported

(***************************************************************************)
(* Part 5: the report list                                                 *)
(***************************************************************************)
NoList == [status |-> 0, detail |-> None, files |-> <<>>]

ListIdle ==
    /\ drive = <<>>
    /\ listSection = None
    /\ listCalls = <<>>
    /\ listResp = NoList

(***************************************************************************)
(* Part 7: the record store behind the record endpoints                    *)
(***************************************************************************)
NoAnswer == [op |-> None, status |-> 0, missing |-> FALSE]

StoreIdle ==
    /\ db = [sec \in Sections |-> <<>>]
    /\ seq = [sec \in Sections |-> 0]
    /\ now = 0
    /\ apiResp = NoAnswer
    /\ made = [sec \in Sections |-> <<>>]
    /\ removed = [sec \in Sections |-> {}]
    /\ changed = [sec \in Sections |-> {}]

\* GET /settings/google has not been asked
NotAsked == [asked |-> FALSE, body |-> EmptyDict]

GetIdle == getResp = NotAsked

OtherIdle == StoreIdle /\ GetIdle

RestIdle == SaveIdle /\ LayoutIdle /\ ListIdle /\ OtherIdle

(***************************************************************************)
(* Initial states and specifications                                       *)
(***************************************************************************)
NoResponse == [status |-> 0, detail |-> None, body |-> None]
NoTitle == [prefix |-> None, ts |-> 0]

ExportsIdle ==
    /\ clock = 0
    /\ files = <<>>
    /\ pc = [e \in Exports |-> "idle"]
    /\ section = [e \in Exports |-> None]
    /\ startTick = [e \in Exports |-> 0]
    /\ creds_path = [e \in Exports |-> None]
    /\ client_secret_path = [e \in Exports |-> None]
    /\ title_with_ts = [e \in Exports |-> NoTitle]
    /\ spreadsheet_id = [e \in Exports |-> 0]
    /\ calls = [e \in Exports |-> <<>>]
    /\ failedAt = [e \in Exports |-> None]
    /\ finishedBefore = [e \in Exports |-> {}]
    /\ response = [e \in Exports |-> NoResponse]

\* the settings file and the credential files it may name
EnvInit ==
    /\ settings \in [credentials_path : SettingValues, client_secret_path : SettingValues]
    /\ svcFile \in IF settings.credentials_path = "path"
                   THEN {"valid", "malformed", "noemail"} ELSE {"absent"}
    /\ envCred \in IF settings.credentials_path = None
                   THEN {"none", "valid", "malformed"} ELSE {"none"}
    /\ secretFile \in IF settings.client_secret_path = "path"
                      THEN {"valid", "malformed"} ELSE {"absent"}
    /\ userToken \in IF settings.client_secret_path = "path"
                     THEN {"valid", "none"} ELSE {"none"}

EnvFixed ==
    /\ settings = [credentials_path |-> None, client_secret_path |-> None]
    /\ svcFile = "absent"
    /\ envCred = "none"
    /\ secretFile = "absent"
    /\ userToken = "none"

InitCol ==
    /\ colN \in (0 - NegCols)..MaxCol
    /\ colOut = NotCalled
    /\ EnvFixed
    /\ ExportsIdle
    /\ RestIdle

NextCol == ColLetterCall

SpecCol == InitCol /\ [][NextCol]_vars

Init ==
    /\ colN = 1
    /\ colOut = NotCalled
    /\ EnvInit
    /\ ExportsIdle
    /\ RestIdle

Next ==
    \/ \E e \in Exports, s \in Sections : StartExport(e, s)
    \/ \E e \in Exports : CreateDocument(e)
    \/ \E e \in Exports : ShareWithService(e)
    \/ \E e \in Exports : OpenSheet(e)
    \/ \E e \in Exports : WriteValues(e)
    \/ \E e \in Exports : FormatReport(e)
    \/ Tick

Spec == Init /\ [][Next]_vars

(***************************************************************************)
(* Column addressing: C1, C2 (checked under SpecCol)                       *)
(***************************************************************************)
Called == colOut # NotCalled

\* C1: for every positive n, _col_letter(n) is the bijective base-26 address
\* (1 -> A, 26 -> Z, 27 -> AA, 52 -> AZ): letters A..Z only, and the standard
\* inverse gives n back, so distinct positive indices get distinct letters.
C1_ColLetterRoundTrip ==
    (Called /\ colN > 0) =>
        /\ colOut.err = None
        /\ \A i \in 1..Len(colOut.letters) : colOut.letters[i] \in 65..90
        /\ LetterToIndex(colOut.letters) = colN
        /\ (colN = 1 => colOut.letters = <<65>>)
        /\ (colN = 26 => colOut.letters = <<90>>)
        /\ (colN = 27 => colOut.letters = <<65, 65>>)
        /\ (colN = 52 => colOut.letters = <<65, 90>>)

C1_Witness == Called /\ colN = 703 /\ colOut.letters = <<65, 65, 65>>

OpCalls(e, op) == SelectSeq(calls[e], LAMBDA c : c.op = op)
Terminal(e) == pc[e] \in {"returned", "failed"}
CredentialErrors == {"MissingCredentials", "InvalidCredentials"}
DocsOf(e) == {i \in DOMAIN files : files[i].creator = e}

\* the request got a Drive client and so reached its creation call
ReachedCreation(e) ==
    /\ pc[e] \notin {"idle", "create"}
    /\ ~(failedAt[e] = "create" /\ response[e].detail \in CredentialErrors)

\* C3: the creation call of an export is issued under the user identity exactly
\* when the settings name a client_secret_path, under the service identity
\* otherwise, and an export that reaches creation issues exactly one such call
\* (never more than one).
C3_CreationIdentity ==
    \A e \in Exports :
        LET cs == OpCalls(e, "create")
            who == IF settings.client_secret_path \in {None, ""} THEN "service" ELSE "user"
        IN /\ Len(cs) <= 1
           /\ (ReachedCreation(e) => Len(cs) = 1)
           /\ \A i \in 1..Len(cs) : cs[i].identity = who
           /\ \A d \in DocsOf(e) : files[d].owner = who

C3_Witness ==
    \E e \in Exports :
        /\ settings.client_secret_path = "path"
        /\ settings.credentials_path = "path"
        /\ pc[e] = "write"
        /\ Len(OpCalls(e, "create")) = 1
        /\ OpCalls(e, "create")[1].identity = "user"

\* C4 as claimed: in delegated mode every value write or formatting batch issued
\* under the service identity is preceded, in the same export, by a writer grant
\* to the service identity on the same document.
C4_GrantBeforeServiceWrite ==
    \A e \in Exports :
        Truthy(client_secret_path[e]) =>
            \A i \in 1..Len(calls[e]) :
                (calls[e][i].op \in {"write", "format"} /\ calls[e][i].identity = "service")
                    => \E j \in 1..(i - 1) :
                          /\ calls[e][j].op = "share"
                          /\ calls[e][j].doc = calls[e][i].doc

\* C5 as claimed: with neither credential path configured the export fails with
\* MissingCredentials and creates no document.
C5_NeitherConfiguredFails ==
    \A e \in Exports :
        (/\ ~Truthy(settings.credentials_path)
         /\ ~Truthy(settings.client_secret_path)
         /\ pc[e] \notin {"idle", "create"})
            => /\ DocsOf(e) = {}
               /\ (Terminal(e) /\ response[e].detail # "RemoteError"
                     => pc[e] = "failed" /\ response[e].detail = "MissingCredentials")

\* C5 as amended: with no credentials_path, no (or an empty) client_secret_path
\* and no service key found through the environment or as *excel-factory*.json,
\* the export fails with the missing-credentials error as HTTP 500, before any
\* remote call, and creates no document.
C5_NoKeyAnywhereFails ==
    \A e \in Exports :
        (/\ settings.credentials_path = None
         /\ ~Truthy(settings.client_secret_path)
         /\ envCred = "none"
         /\ pc[e] \notin {"idle", "create"})
            => /\ pc[e] = "failed"
               /\ failedAt[e] = "create"
               /\ response[e].status = 500
               /\ response[e].detail = "MissingCredentials"
               /\ calls[e] = <<>>
               /\ spreadsheet_id[e] = 0
               /\ DocsOf(e) = {}

C5_Witness ==
    \E e \in Exports :
        /\ settings.credentials_path = None
        /\ settings.client_secret_path = None
        /\ envCred = "none"
        /\ pc[e] = "failed"
        /\ response[e].detail = "MissingCredentials"

\* a credential file the settings name, and the export opens, does not parse
ConfiguredFileBad ==
    \/ settings.credentials_path = "path" /\ svcFile = "malformed"
    \/ settings.client_secret_path = "path" /\ secretFile = "malformed" /\ userToken # "valid"

\* C6 as claimed: when a configured credential file is unreadable or malformed
\* the export fails with InvalidCredentials and no document is left created.
C6_BadCredentialFileNoDocument ==
    \A e \in Exports :
        ConfiguredFileBad =>
            /\ pc[e] # "returned"
            /\ (pc[e] = "failed" =>
                   /\ DocsOf(e) = {}
                   /\ (response[e].detail # "RemoteError"
                         => response[e].detail = "InvalidCredentials"))

\* C7 as claimed: an export in which no remote call failed and no credential was
\* missing or invalid ends by returning {spreadsheet_id, webViewLink, title}:
\* the id of the document it created, the title = section prefix + timestamp.
C7_ExportReturnsResult ==
    \A e \in Exports :
        (Terminal(e) /\ response[e].detail \notin (CredentialErrors \cup {"RemoteError"}))
            => /\ pc[e] = "returned"
               /\ response[e].status = 200
               /\ response[e].body.spreadsheet_id \in DocsOf(e)
               /\ response[e].body.title.prefix = SectionTitle(section[e])

\* both created a document, the second began after the first was answered
Sequential(e1, e2) ==
    /\ e1 \in finishedBefore[e2]
    /\ section[e1] = section[e2]
    /\ spreadsheet_id[e1] # 0
    /\ spreadsheet_id[e2] # 0

\* C8 as claimed: two sequential exports of one section create documents with
\* distinct identifiers and distinct title timestamps, also within one second.
C8_SequentialDistinctTitles ==
    \A e1, e2 \in Exports :
        Sequential(e1, e2) =>
            /\ spreadsheet_id[e1] # spreadsheet_id[e2]
            /\ files[spreadsheet_id[e1]].name.ts # files[spreadsheet_id[e2]].name.ts

\* C8 as amended: two sequential exports of one section create documents with
\* distinct identifiers; their title timestamps differ exactly when the two
\* titles were computed in different clock seconds (same second: same title).
C8_DistinctIdsTitlesBySecond ==
    \A e1, e2 \in Exports :
        Sequential(e1, e2) =>
            /\ spreadsheet_id[e1] # spreadsheet_id[e2]
            /\ (files[spreadsheet_id[e1]].name.ts # files[spreadsheet_id[e2]].name.ts
                  <=> (startTick[e1] \div SubSecond) # (startTick[e2] \div SubSecond))
            /\ (files[spreadsheet_id[e1]].name = files[spreadsheet_id[e2]].name
                  <=> (startTick[e1] \div SubSecond) = (startTick[e2] \div SubSecond))

C8_Witness ==
    \E e1, e2 \in Exports :
        /\ Sequential(e1, e2)
        /\ (startTick[e1] \div SubSecond) # (startTick[e2] \div SubSecond)
        /\ files[spreadsheet_id[e1]].name.ts # files[spreadsheet_id[e2]].name.ts

\* C9: when a step of the export fails (creation, value write, formatting, or
\* any other), the caller gets HTTP 500 carrying the failure message, no call of
\* a later step is issued, no call is issued twice, and the document the export
\* created stays in the Drive.
C9_FailureAborts ==
    \A e \in Exports :
        pc[e] = "failed" =>
            /\ response[e].status = 500
            /\ response[e].detail # None
            /\ response[e].body = None
            /\ failedAt[e] \in {"create", "share", "sheets", "write", "format"}
            /\ \A i \in 1..Len(calls[e]) :
                   StepIndex(OpStep(calls[e][i].op)) <= StepIndex(failedAt[e])
            /\ \A i, j \in 1..Len(calls[e]) : i # j => calls[e][i].op # calls[e][j].op
            /\ (response[e].detail = "RemoteError" =>
                   OpStep(calls[e][Len(calls[e])].op) = failedAt[e])
            /\ (spreadsheet_id[e] # 0 =>
                   /\ spreadsheet_id[e] \in DOMAIN files
                   /\ ~files[spreadsheet_id[e]].trashed)

C9_Witness ==
    \E e \in Exports :
        /\ pc[e] = "failed"
        /\ failedAt[e] = "write"
        /\ response[e].detail = "RemoteError"
        /\ spreadsheet_id[e] # 0
        /\ ~files[spreadsheet_id[e]].written

\* C10: in every interleaving of the concurrent exports, an export past its
\* creation step owns a document of its own, distinct from the other export's,
\* and every later call of an export (grant, sheet lookup, value write,
\* formatting) targets the document that this export created.
C10_ExportsIsolated ==
    \A e \in Exports :
        /\ (pc[e] \in {"share", "sheets", "write", "format", "returned"}
              => spreadsheet_id[e] # 0)
        /\ (spreadsheet_id[e] # 0 => spreadsheet_id[e] \in DocsOf(e))
        /\ \A i \in 1..Len(calls[e]) :
               calls[e][i].op # "create" => calls[e][i].doc \in DocsOf(e)
        /\ \A e2 \in Exports \ {e} :
               spreadsheet_id[e] # 0 => spreadsheet_id[e] # spreadsheet_id[e2]

C10_Witness ==
    /\ \A e \in Exports : pc[e] = "format" /\ Len(OpCalls(e, "write")) = 1
    /\ spreadsheet_id[1] = 2
    /\ spreadsheet_id[2] = 1
    /\ finishedBefore = [e \in Exports |-> {}]

(***************************************************************************)
(* Part 3: settings saves (checked under SpecSave)                         *)
(***************************************************************************)
\* the bytes of a file that json.load rejects: opened for writing and not yet
\* written, or holding the tail of a longer document under a shorter one
FileUnparsable == [k \in SettingKeys |-> "Unparsable"]

\* read_google_settings: the parsed object, {} when the file does not parse
ReadGoogleSettings == IF settings = FileUnparsable THEN EmptyDict ELSE settings

\* the value each saver sends, so that the two writers can be told apart
SaverValue(w) == IF w = 1 THEN "a" ELSE "b"

\* request bodies: a key is left out, sent as null, or sent with a value
Payloads(w) == [SettingKeys -> {Absent, None, SaverValue(w)}]

\* the files a save may find: no file, a file holding every key, a file with
\* a key outside the allow-list only
InitialFiles ==
    {EmptyDict, [k \in SettingKeys |-> "old"],
     [k \in SettingKeys |-> IF k = "extra" THEN "old" ELSE Absent]}

\* k in allowed and v is not None
Supplied(p, k) == k \in AllowedKeys /\ p[k] \notin {Absent, None}

\* data.update({...})
UpdateDict(d, p) == [k \in SettingKeys |-> IF Supplied(p, k) THEN p[k] ELSE d[k]]

\* data = read_google_settings(); data.update(...)
SaveRead(w, p) ==
    /\ spc[w] = "idle"
    /\ payload' = [payload EXCEPT ![w] = p]
    /\ data' = [data EXCEPT ![w] = UpdateDict(ReadGoogleSettings, p)]
    /\ spc' = [spc EXCEPT ![w] = "updated"]
    /\ UNCHANGED <<colVars, otherVars, envVars, exportVars, layoutVars, listVars,
                   committed, fileBeforeWrite,
                   writeOrder>>

\* write_google_settings: open(path, "w") truncates the file
SaveOpen(w) ==
    /\ spc[w] = "updated"
    /\ settings' = FileUnparsable
    /\ spc' = [spc EXCEPT ![w] = "opened"]
    /\ UNCHANGED <<colVars, otherVars, svcFile, envCred, secretFile, userToken, exportVars,
                   layoutVars, listVars, payload, data, committed, fileBeforeWrite, writeOrder>>

\* number of characters of a key and of a value
KeyLen(k) ==
    CASE k = "folder_id" -> 9
      [] k = "credentials_path" -> 16
      [] k = "client_secret_path" -> 18
      [] OTHER -> 5

ValLen(v) == IF v = "old" THEN 3 ELSE 1

\* the keys an object holds
KeysOf(d) == {k \in SettingKeys : d[k] # Absent}

RECURSIVE LinesLen(_, _)
\* the lines of json.dump(indent=2): two spaces, "key", colon, space, "value"
LinesLen(d, ks) ==
    IF ks = {} THEN 0
    ELSE LET k == CHOOSE x \in ks : TRUE
         IN KeyLen(k) + ValLen(d[k]) + 8 + LinesLen(d, ks \ {k})

\* number of bytes that json.dump(data, f, indent=2) writes
JsonLen(d) ==
    IF KeysOf(d) = {} THEN 2
    ELSE 4 + LinesLen(d, KeysOf(d)) + 2 * (Cardinality(KeysOf(d)) - 1)

\* the file after saver w wrote its document at offset 0 and closed: when
\* another saver wrote a longer document since w opened the file, the tail of
\* that document stays behind and the file no longer parses
DumpOutcome(w) ==
    IF spc[w] = "clobbered" /\ JsonLen(data[w]) < JsonLen(settings)
    THEN FileUnparsable ELSE data[w]

\* write_google_settings: json.dump and close; save_google_settings returns data
SaveDump(w) ==
    /\ spc[w] \in {"opened", "clobbered"}
    /\ settings' = DumpOutcome(w)
    /\ spc' = [u \in Savers |-> IF u = w THEN "done"
                                ELSE IF spc[u] = "opened" THEN "clobbered" ELSE spc[u]]
    /\ committed' = settings'
    /\ fileBeforeWrite' = [fileBeforeWrite EXCEPT ![w] = committed]
    /\ writeOrder' = Append(writeOrder, w)
    /\ UNCHANGED <<colVars, otherVars, svcFile, envCred, secretFile, userToken, exportVars,
                   layoutVars, listVars, payload, data>>

InitSave ==
    /\ colN = 1
    /\ colOut = NotCalled
    /\ settings \in InitialFiles
    /\ svcFile = "absent"
    /\ envCred = "none"
    /\ secretFile = "absent"
    /\ userToken = "none"
    /\ ExportsIdle
    /\ spc = [w \in Savers |-> "idle"]
    /\ payload = [w \in Savers |-> NoSave]
    /\ data = [w \in Savers |-> EmptyDict]
    /\ committed = settings
    /\ fileBeforeWrite = [w \in Savers |-> EmptyDict]
    /\ writeOrder = <<>>
    /\ LayoutIdle
    /\ ListIdle
    /\ OtherIdle

NextSave ==
    \/ \E w \in Savers : \E p \in Payloads(w) : SaveRead(w, p)
    \/ \E w \in Savers : SaveOpen(w)
    \/ \E w \in Savers : SaveDump(w)

SpecSave == InitSave /\ [][NextSave]_vars

\* the savers whose request supplied key k
Suppliers(k) == {w \in Savers : Supplied(payload[w], k)}

\* position of saver w in the order of completed writes
WritePos(w) == CHOOSE i \in 1..Len(writeOrder) : writeOrder[i] = w

\* the supplier of key k whose write completed last
LastSupplier(k) ==
    CHOOSE w \in Suppliers(k) : \A u \in Suppliers(k) : WritePos(u) <= WritePos(w)

BothSaved == \A w \in Savers : spc[w] = "done"

\* C11: once both concurrent saves have completed, every allow-listed key that a
\* saver supplied holds, in the file as it reads, the value of the last writer
\* that supplied it; a key supplied by one saver only holds that saver's value
C11_LastSupplierWinsPerKey ==
    BothSaved =>
        \A k \in AllowedKeys :
            Suppliers(k) # {} => ReadGoogleSettings[k] = payload[LastSupplier(k)][k]

\* the save whose write completed last, while no other save has the file open
LatestSave(w) ==
    /\ spc[w] = "done"
    /\ writeOrder[Len(writeOrder)] = w
    /\ \A u \in Savers : spc[u] \notin {"opened", "clobbered"}

\* C12: after a save has written, the file holds the supplied value for every
\* allow-listed key supplied with a non-null value, and for every other key,
\* the keys outside the allow-list included, the value that the file held
\* before that write (as the last completed write, or the start, left it)
C12_SaveChangesOnlySuppliedKeys ==
    \A w \in Savers :
        LatestSave(w) =>
            \A k \in SettingKeys :
                ReadGoogleSettings[k] =
                    IF Supplied(payload[w], k) THEN payload[w][k] ELSE fileBeforeWrite[w][k]

(***************************************************************************)
(* Part 4: the value matrix of an export (checked under SpecLayout)        *)
(***************************************************************************)
MaxRecords == 3
MaxHeaderCols == 6
ExportLimit == 2000
NotesLimit == 500
DueDateLen == 10

\* Python values held by a record or a cell: str (s: its characters), int
\* (n), float (n: its thousandths) and None
Txt(s) == [t |-> "str", s |-> s, n |-> 0]
Num(n) == [t |-> "int", s |-> <<>>, n |-> n]
Real(m) == [t |-> "float", s |-> <<>>, n |-> m]
NoneCell == [t |-> "none", s |-> <<>>, n |-> 0]
\* a string literal of the code, kept whole
Lit(l) == [t |-> "lit", s |-> <<l>>, n |-> 0]
\* the empty string ""
Blank == Txt(<<>>)

\* bool(c) is False
Falsy(c) ==
    \/ c.t = "none"
    \/ c.t = "str" /\ c.s = <<>>
    \/ c.t \in {"int", "float"} /\ c.n = 0

\* c or ""
OrBlank(c) == IF Falsy(c) THEN Blank ELSE c

Digits == <<"0", "1", "2", "3", "4", "5", "6", "7", "8", "9">>

RECURSIVE IntToStr(_)
\* str(n) of an int n >= 0
IntToStr(n) ==
    IF n < 10 THEN <<Digits[n + 1]>> ELSE IntToStr(n \div 10) \o <<Digits[(n % 10) + 1]>>

\* the decimals of a float with m thousandths: no trailing zero, one digit at least
FracDigits(m) ==
    LET d3 == <<Digits[(m \div 100) + 1], Digits[((m \div 10) % 10) + 1], Digits[(m % 10) + 1]>>
    IN IF m % 10 # 0 THEN d3 ELSE IF m % 100 # 0 THEN SubSeq(d3, 1, 2) ELSE SubSeq(d3, 1, 1)

\* str(x) of a float x >= 0 held in thousandths: 100000 -> "100.0", 4 -> "0.004"
FloatToStr(m) == IntToStr(m \div 1000) \o <<".">> \o FracDigits(m % 1000)

\* str(c)
Str(c) ==
    CASE c.t = "int" -> Txt(IntToStr(c.n))
      [] c.t = "float" -> Txt(FloatToStr(c.n))
      [] c.t = "none" -> Txt(<<"N", "o", "n", "e">>)
      [] OTHER -> c

RECURSIVE StripLeft(_)
StripLeft(s) == IF s # <<>> /\ Head(s) = " " THEN StripLeft(Tail(s)) ELSE s

RECURSIVE StripRight(_)
StripRight(s) ==
    IF s # <<>> /\ s[Len(s)] = " " THEN StripRight(SubSeq(s, 1, Len(s) - 1)) ELSE s

\* s.strip()
Strip(s) == StripRight(StripLeft(s))

FormulaChars == {"+", "=", "-", "@"}

\* _escape_cell of export_clients
EscapeCell(c) ==
    LET s == Strip(IF c.t = "none" THEN <<>> ELSE Str(c).s)
    IN IF s # <<>> /\ s[1] \in FormulaChars THEN Txt(<<"'">> \o Str(c).s)
       ELSE IF c.t = "none" THEN Blank ELSE c

\* c[:n] of a str
Slice(c, n) == Txt(SubSeq(c.s, 1, IF Len(c.s) < n THEN Len(c.s) ELSE n))

\* the timestamp _now_iso() gives the record created as number i: a day of its own
IsoStamp(i) == <<"2", "0", "2", "6", "-", "0", "1", "-", "0", Digits[i + 1]>>

\* _parse_date: the day of an ISO string, 0 for a value that does not parse
ParseDate(c) ==
    IF c.t # "str" \/ Len(c.s) # 10 THEN 0
    ELSE CHOOSE d \in 0..9 : Digits[d + 1] = c.s[10]

StActive == <<"a", "c", "t", "i", "v", "e">>
StArchived == <<"a", "r", "c", "h", "i", "v", "e", "d">>
StDraft == <<"d", "r", "a", "f", "t">>
StInProgress == <<"i", "n", "_", "p", "r", "o", "g", "r", "e", "s", "s">>
StWon == <<"w", "o", "n">>
StLost == <<"l", "o", "s", "t">>

\* order = ["draft", "in_progress", "won", "lost"]
DealOrder == <<StDraft, StInProgress, StWon, StLost>>

\* the bodies of POST /clients used as samples: phone and notes absent or
\* beginning with a formula character
ClientSamples ==
    {[name |-> Txt(<<"A", "n", "n">>), email |-> NoneCell, phone |-> p, status |-> Txt(st),
      notes |-> n] :
        p \in {NoneCell, Txt(<<"+", "7">>)}, st \in {StActive, StArchived},
        n \in {NoneCell, Txt(<<"=", "1", "+", "1">>)}}

DealSample(st, amt) ==
    [title |-> Txt(<<"D">>), client_id |-> NoneCell, amount |-> amt, status |-> Txt(st),
     notes |-> NoneCell]

\* the deals used as samples: amounts 100, 200, 300, a missing amount, an amount
\* below one hundredth, a text stored in the REAL column, and an empty status
DealSamples ==
    {DealSample(StDraft, Real(100000)), DealSample(StDraft, Real(200000)),
     DealSample(StWon, Real(300000)), DealSample(StDraft, NoneCell),
     DealSample(StLost, Real(4)), DealSample(StWon, Txt(<<"n", "/", "a">>)),
     DealSample(<<>>, Real(100000))}

TaskSamples ==
    {[title |-> Txt(<<"T">>), description |-> d, client_id |-> NoneCell, deal_id |-> NoneCell,
      is_completed |-> Num(c), due_date |-> due] :
        d \in {NoneCell, Txt(<<"-", "x">>)}, c \in {0, 1},
        due \in {NoneCell,
                 Txt(<<"2", "0", "2", "6", "-", "0", "1", "-", "0", "2", "T", "9">>)}}

Samples(sec) ==
    CASE sec = "clients" -> ClientSamples
      [] sec = "deals" -> DealSamples
      [] OTHER -> TaskSamples

\* the row INSERT stores: id from AUTOINCREMENT, created_at = updated_at = now
StoredRecord(i, smp) ==
    [id |-> i, created_at |-> Txt(IsoStamp(i)), updated_at |-> Txt(IsoStamp(i))] @@ smp

\* client_create, deal_create, task_create
CreateRecord(smp) ==
    /\ caller = None
    /\ nextId <= MaxRecords
    /\ table' = [i \in DOMAIN table \cup {nextId} |->
                    IF i = nextId THEN StoredRecord(nextId, smp) ELSE table[i]]
    /\ nextId' = nextId + 1
    /\ UNCHANGED <<colVars, otherVars, envVars, exportVars, saveVars, listVars,
                   tableSection, caller, headers,
                   rows_data, rows, values, range_name, fmt, layoutResp>>

\* client_delete, deal_delete, task_delete
DeleteRecord(i) ==
    /\ caller = None
    /\ i \in DOMAIN table
    /\ table' = [j \in DOMAIN table \ {i} |-> table[j]]
    /\ UNCHANGED <<colVars, otherVars, envVars, exportVars, saveVars, listVars,
                   tableSection, nextId, caller,
                   headers, rows_data, rows, values, range_name, fmt, layoutResp>>

RECURSIVE DescFrom(_, _)
DescFrom(tb, ids) ==
    IF ids = {} THEN <<>>
    ELSE LET m == CHOOSE i \in ids : \A j \in ids : j <= i
         IN <<tb[m]>> \o DescFrom(tb, ids \ {m})

\* client_list, deal_list, task_list: ORDER BY id DESC LIMIT ?
ListRecords(tb, limit) ==
    LET all == DescFrom(tb, DOMAIN tb)
    IN SubSeq(all, 1, IF Len(all) < limit THEN Len(all) ELSE limit)

RECURSIVE InsertById(_, _)
InsertById(r, sq) ==
    IF sq = <<>> THEN <<r>>
    ELSE IF r.id < Head(sq).id THEN <<r>> \o sq
    ELSE <<Head(sq)>> \o InsertById(r, Tail(sq))

RECURSIVE SortedById(_)
\* sorted(..., key=lambda r: r["id"])
SortedById(sq) ==
    IF sq = <<>> THEN <<>>
    ELSE InsertById(sq[Len(sq)], SortedById(SubSeq(sq, 1, Len(sq) - 1)))

\* headers of export_clients, export_deals, export_tasks (routers/export.py)
RouterHeaders(sec) ==
    CASE sec = "clients" ->
            <<Lit("No"), Lit("ID"), Lit("Imya"), Lit("Email"), Lit("Telefon"), Lit("Status"),
              Lit("Zametki"), Lit("Sozdan"), Lit("Obnovlen")>>
      [] sec = "deals" ->
            <<Lit("No"), Lit("ID"), Lit("Nazvanie"), Lit("ID klienta"), Lit("Summa"),
              Lit("Status"), Lit("Zametki"), Lit("Sozdan"), Lit("Obnovlen")>>
      [] OTHER ->
            <<Lit("No"), Lit("ID"), Lit("Nazvanie"), Lit("Opisanie"), Lit("ID klienta"),
              Lit("ID sdelki"), Lit("Vypolneno"), Lit("Srok"), Lit("Sozdan"), Lit("Obnovlen")>>

\* the row of record r at position k (1-based) of rows_data (routers/export.py)
RouterRow(sec, k, r) ==
    CASE sec = "clients" ->
            <<Num(k), Num(r.id), r.name, OrBlank(r.email), EscapeCell(r.phone), r.status,
              Slice(OrBlank(r.notes), NotesLimit), r.created_at, r.updated_at>>
      [] sec = "deals" ->
            <<Num(k), Num(r.id), r.title, OrBlank(r.client_id), OrBlank(r.amount), r.status,
              Slice(OrBlank(r.notes), NotesLimit), r.created_at, r.updated_at>>
      [] OTHER ->
            <<Num(k), Num(r.id), r.title, Slice(OrBlank(r.description), NotesLimit),
              OrBlank(r.client_id), OrBlank(r.deal_id),
              IF Falsy(r.is_completed) THEN Lit("Net") ELSE Lit("Da"),
              Slice(OrBlank(r.due_date), DueDateLen), r.created_at, r.updated_at>>

RouterRows(sec, rd) == [k \in 1..Len(rd) |-> RouterRow(sec, k, rd[k])]

\* headers of export_clients, export_deals, export_tasks (main.py)
MainHeaders(sec) == Tail(RouterHeaders(sec))

\* the row of record r (main.py): no row number, no escaping
MainRow(sec, r) ==
    CASE sec = "clients" ->
            <<Num(r.id), r.name, OrBlank(r.email), OrBlank(r.phone), r.status,
              Slice(OrBlank(r.notes), NotesLimit), r.created_at, r.updated_at>>
      [] sec = "deals" ->
            <<Num(r.id), r.title, OrBlank(r.client_id), OrBlank(r.amount), r.status,
              Slice(OrBlank(r.notes), NotesLimit), r.created_at, r.updated_at>>
      [] OTHER ->
            <<Num(r.id), r.title, Slice(OrBlank(r.description), NotesLimit),
              OrBlank(r.client_id), OrBlank(r.deal_id),
              IF Falsy(r.is_completed) THEN Lit("Net") ELSE Lit("Da"),
              Slice(OrBlank(r.due_date), DueDateLen), r.created_at, r.updated_at>>

MainRows(sec, rd) == [k \in 1..Len(rd) |-> MainRow(sec, rd[k])]

\* [x] * n
Repeat(x, n) == [j \in 1..n |-> x]

\* a row that is returned as it is, whatever num_cols
NoPadRow(row, num_cols) == row

\* _pad_row
PadRow(row, num_cols) ==
    row \o Repeat(Blank, IF num_cols - Len(row) > 0 THEN num_cols - Len(row) ELSE 0)

\* the days that _parse_date finds in created_at
DatesOf(rd) == {ParseDate(rd[k].created_at) : k \in 1..Len(rd)} \ {0}

\* date_min, date_max
DateMin(rd) ==
    IF DatesOf(rd) = {} THEN Lit("-")
    ELSE Txt(IsoStamp(CHOOSE d \in DatesOf(rd) : \A e \in DatesOf(rd) : d <= e))

DateMax(rd) ==
    IF DatesOf(rd) = {} THEN Lit("-")
    ELSE Txt(IsoStamp(CHOOSE d \in DatesOf(rd) : \A e \in DatesOf(rd) : e <= d))

\* the status a deal is counted under when nothing stands in for a missing one
DealStatusAsStored(r) == r.status

\* st = r.get("status") or "draft"
DealStatus(r) == IF Falsy(r.status) THEN Txt(StDraft) ELSE r.status

\* the positions of rows_data counted under status st
CountedUnder(rd, st) == {k \in 1..Len(rd) : DealStatus(rd[k]) = Txt(st)}

RECURSIVE IsDigits(_)
IsDigits(s) ==
    IF s = <<>> THEN TRUE
    ELSE (\E d \in 1..10 : Digits[d] = Head(s)) /\ IsDigits(Tail(s))

RECURSIVE DigitsValue(_, _)
DigitsValue(s, acc) ==
    IF s = <<>> THEN acc
    ELSE DigitsValue(Tail(s), 10 * acc + ((CHOOSE d \in 1..10 : Digits[d] = Head(s)) - 1))

\* what "sums[st] += float(amt)" adds, in thousandths: nothing for None and
\* for a value float() rejects
AmountAdded(c) ==
    CASE c.t = "float" -> c.n
      [] c.t = "int" -> 1000 * c.n
      [] c.t = "str" /\ Strip(c.s) # <<>> /\ IsDigits(Strip(c.s)) ->
            1000 * DigitsValue(Strip(c.s), 0)
      [] OTHER -> 0

RECURSIVE SumAdded(_, _)
SumAdded(rd, ks) ==
    IF ks = {} THEN 0
    ELSE LET k == CHOOSE x \in ks : TRUE
         IN AmountAdded(rd[k].amount) + SumAdded(rd, ks \ {k})

\* round(x, 2) of x >= 0 held in thousandths; a tie goes to the even hundredth
Round2(m) ==
    LET r == m % 10
    IN IF r < 5 THEN m - r
       ELSE IF r > 5 THEN m - r + 10
       ELSE IF (m \div 10) % 2 = 0 THEN m - r ELSE m - r + 10

\* the statuses of the sample clients in sorted() order, "" first
ClientStatusOrder == <<<<>>, StActive, StArchived>>

\* number of clients of rows_data whose "status or ''" is st
ClientCount(rd, st) == Cardinality({k \in 1..Len(rd) : OrBlank(rd[k].status) = Txt(st)})

RECURSIVE JoinStatuses(_, _)
\* ", ".join(f"{k}: {v}" for k, v in sorted(statuses.items()) if v), from the
\* j-th status of the order on
JoinStatuses(rd, j) ==
    IF j > Len(ClientStatusOrder) THEN <<>>
    ELSE LET st == ClientStatusOrder[j]
             rest == JoinStatuses(rd, j + 1)
             item == st \o <<":", " ">> \o IntToStr(ClientCount(rd, st))
         IN IF ClientCount(rd, st) = 0 THEN rest
            ELSE IF rest = <<>> THEN item ELSE item \o <<",", " ">> \o rest

\* status_line
StatusLine(rd) ==
    IF JoinStatuses(rd, 1) = <<>> THEN Lit("-") ELSE Txt(JoinStatuses(rd, 1))

\* _build_summary_block
BuildSummaryBlock(sec, rd, num_cols) ==
    IF rd = <<>> THEN
        <<PadRow(<<Lit("Svodka otcheta")>>, num_cols),
          PadRow(<<Lit("Period:"), Lit("-"), Lit("-")>>, num_cols),
          PadRow(<<Lit("Statusy:"), Lit("-")>>, num_cols),
          PadRow(<<Lit("Vsego zapisey:"), Num(0)>>, num_cols)>>
    ELSE CASE sec = "clients" ->
            <<PadRow(<<Lit("Svodka otcheta")>>, num_cols),
              PadRow(<<Lit("Period:"), DateMin(rd), DateMax(rd)>>, num_cols),
              PadRow(<<Lit("Statusy:"), StatusLine(rd)>>, num_cols),
              PadRow(<<Lit("Vsego zapisey:"), Num(Len(rd))>>, num_cols)>>
      [] sec = "deals" ->
            <<PadRow(<<Lit("Svodka po sdelkam")>>, num_cols),
              PadRow(<<Lit("Period:"), DateMin(rd), DateMax(rd)>>, num_cols),
              PadRow(<<Lit("Status"), Lit("Chernovik"), Lit("V rabote"), Lit("Vyigrano"),
                       Lit("Proigrano")>>, num_cols),
              PadRow(<<Lit("Kol-vo")>> \o
                       [j \in 1..4 |-> Num(Cardinality(CountedUnder(rd, DealOrder[j])))],
                     num_cols),
              PadRow(<<Lit("Summa")>> \o
                       [j \in 1..4 |->
                           Real(Round2(SumAdded(rd, CountedUnder(rd, DealOrder[j]))))],
                     num_cols),
              PadRow(<<Lit("Vsego zapisey:"), Num(Len(rd))>>, num_cols)>>
      [] sec = "tasks" ->
            LET done == Cardinality({k \in 1..Len(rd) : ~Falsy(rd[k].is_completed)})
            IN <<PadRow(<<Lit("Svodka otcheta")>>, num_cols),
                 PadRow(<<Lit("Period:"), DateMin(rd), DateMax(rd)>>, num_cols),
                 PadRow(<<Lit("Vypolneno:"), Num(done), Lit("Ne vypolneno:"),
                          Num(Len(rd) - done)>>, num_cols),
                 PadRow(<<Lit("Vsego zapisey:"), Num(Len(rd))>>, num_cols)>>
      [] OTHER ->
            <<PadRow(<<Lit("Svodka otcheta")>>, num_cols),
              PadRow(<<Lit("Period:"), DateMin(rd), DateMax(rd)>>, num_cols),
              PadRow(<<Lit("Vsego zapisey:"), Num(Len(rd))>>, num_cols)>>

\* a row of the matrix, with the part of the layout it was built as
Row(kind, cells) == [kind |-> kind, cells |-> cells]

\* data_rows = [[str(c) for c in row] for row in rows]
DataRows(rws) == [k \in 1..Len(rws) |-> [j \in 1..Len(rws[k]) |-> Str(rws[k][j])]]

\* "if section and num_cols"
HasSummary(sec, hd) == sec # None /\ Len(hd) # 0

\* values of export_to_google_sheet
BuildValues(title, hd, rws, sec, rd) ==
    LET num_cols == Len(hd)
        title_row == <<Lit(title)>> \o Repeat(Blank, num_cols - 1)
        table_data == [k \in 1..Len(rws) |-> Row("data", DataRows(rws)[k])]
        summary_block == BuildSummaryBlock(sec, rd, num_cols)
    IN IF HasSummary(sec, hd)
       THEN <<Row("title", title_row)>>
            \o [k \in 1..Len(summary_block) |-> Row("summary", summary_block[k])]
            \o <<Row("blank", Repeat(Blank, num_cols)), Row("header", hd)>> \o table_data
       ELSE <<Row("title", title_row), Row("blank", Repeat(Blank, num_cols)),
              Row("header", hd)>> \o table_data

\* the header index taken one row too low
DataStartRowBelow(vals, rws) == Len(vals) - Len(rws)

\* data_start_row = len(values) - len(data_rows) - 1
DataStartRow(vals, rws) == Len(vals) - Len(rws) - 1

\* summary_rows = data_start_row - 2 if section else 0
SummaryRows(vals, rws, sec) == IF sec # None THEN DataStartRow(vals, rws) - 2 ELSE 0

\* one status column index for the three sections
StatusColIndexSame(sec) == IF sec \in {"clients", "deals", "tasks"} THEN 5 ELSE 0 - 1

\* status_col_index (-1: None)
StatusColIndex(sec) ==
    CASE sec = "clients" -> 5
      [] sec = "deals" -> 5
      [] sec = "tasks" -> 6
      [] OTHER -> 0 - 1

\* an export that removes the records it has read
StoreReadAndPurge ==
    /\ table' = <<>>
    /\ UNCHANGED <<tableSection, nextId>>

\* the only statement an export runs on the store is the SELECT of client_list,
\* deal_list or task_list: the table and its id sequence stay as they are
StoreRead ==
    /\ table' = table
    /\ UNCHANGED <<tableSection, nextId>>

\* export_to_google_sheet, its remote calls answering: the layout, the one
\* write_range call and the arguments of the format_report_table call, which
\* raises TypeError when it is handed a keyword the method does not declare
Layout(who, title, hd, rws, sec, rd) ==
    /\ caller' = who
    /\ headers' = hd
    /\ rows_data' = rd
    /\ rows' = rws
    /\ values' = BuildValues(title, hd, rws, sec, rd)
    /\ range_name' = [col |-> ColLetter(Len(hd)), row |-> Len(values')]
    /\ fmt' = [data_start_row |-> DataStartRow(values', rws),
               summary_rows |-> SummaryRows(values', rws, sec),
               num_rows |-> 1 + Len(rws),
               num_cols |-> Len(hd),
               status_col_index |-> StatusColIndex(sec)]
    /\ layoutResp' = IF FormatReportTableKwargs \subseteq FormatReportTableParams
                     THEN 200 ELSE 500
    /\ UNCHANGED <<colVars, otherVars, envVars, exportVars, saveVars, listVars>>

\* POST /export/{section} of routers/export.py
ExportViaRouter ==
    /\ caller = None
    /\ StoreRead
    /\ LET rd == SortedById(ListRecords(table, ExportLimit))
       IN Layout("router", SectionTitle(tableSection), RouterHeaders(tableSection),
                 RouterRows(tableSection, rd), tableSection, rd)

\* POST /export/{section} of main.py: values = [headers] + rows, one write_range
\* call, then format_range_header(start_row=0, end_row=1)
ExportViaMain ==
    /\ caller = None
    /\ LET rd == ListRecords(table, ExportLimit)
           hd == MainHeaders(tableSection)
           rws == MainRows(tableSection, rd)
       IN /\ caller' = "main"
          /\ headers' = hd
          /\ rows_data' = rd
          /\ rows' = rws
          /\ values' = <<Row("header", hd)>>
                       \o [k \in 1..Len(rws) |-> Row("data", DataRows(rws)[k])]
          /\ range_name' = [col |-> ColLetter(Len(hd)), row |-> 1 + Len(rws)]
          /\ fmt' = [data_start_row |-> 0, summary_rows |-> 0, num_rows |-> 1,
                     num_cols |-> Len(hd), status_col_index |-> 0 - 1]
          /\ layoutResp' = 200
    /\ StoreRead
    /\ UNCHANGED <<colVars, otherVars, envVars, exportVars, saveVars, listVars>>

\* export_to_google_sheet called with n headers and rows of n cells, with or
\* without a section
CallExport(sec, n) ==
    /\ caller = None
    /\ StoreRead
    /\ LET rd == SortedById(ListRecords(table, ExportLimit))
       IN Layout("direct", SectionTitle(tableSection), Repeat(Lit("h"), n),
                 [k \in 1..Len(rd) |-> Repeat(Num(k), n)], sec, rd)

InitLayout ==
    /\ colN = 1
    /\ colOut = NotCalled
    /\ EnvFixed
    /\ ExportsIdle
    /\ SaveIdle
    /\ ListIdle
    /\ OtherIdle
    /\ tableSection \in Sections
    /\ table = <<>>
    /\ nextId = 1
    /\ NotExported

NextLayout ==
    \/ \E smp \in Samples(tableSection) : CreateRecord(smp)
    \/ \E i \in 1..MaxRecords : DeleteRecord(i)
    \/ ExportViaRouter
    \/ ExportViaMain
    \/ \E sec \in {None, tableSection} : \E n \in 0..MaxHeaderCols : CallExport(sec, n)

SpecLayout == InitLayout /\ [][NextLayout]_vars

(***************************************************************************)
(* The value matrix: C13 .. C18 (checked under SpecLayout)                 *)
(***************************************************************************)
Exported == caller # None

RowLen(i) == Len(values[i].cells)

\* the widest row of the matrix
MatrixWidth == CHOOSE w \in {RowLen(i) : i \in 1..Len(values)} :
                   \A i \in 1..Len(values) : RowLen(i) <= w

RowsOfKind(kind) == {i \in 1..Len(values) : values[i].kind = kind}

HeaderIndex == CHOOSE i \in 1..Len(values) : values[i].kind = "header"

C14_HeaderRowIndex ==
    caller \in {"router", "direct"} =>
        /\ fmt.data_start_row = HeaderIndex - 1
        /\ fmt.data_start_row =
              IF RowsOfKind("summary") # {}
              THEN 1 + Cardinality(RowsOfKind("summary")) + 1 ELSE 2
        /\ fmt.summary_rows = Cardinality(RowsOfKind("summary"))

\* a deals export of three records with its six summary rows above the header
C14_Witness ==
    /\ caller = "router"
    /\ tableSection = "deals"
    /\ Len(rows_data) = 3
    /\ Cardinality(RowsOfKind("summary")) = 6
    /\ fmt.data_start_row = 8
    /\ fmt.summary_rows = 6
    /\ values[9].kind = "header"

\* a deals export of the endpoint with records
DealsExported == caller = "router" /\ tableSection = "deals" /\ rows_data # <<>>

\* the cells of the deals summary for the j-th status of the fixed order
CountCell(j) == values[5].cells[1 + j]

SumCell(j) == values[6].cells[1 + j]

\* the positions of rows_data whose status is st
RowsWithStatus(st) == {k \in 1..Len(rows_data) : rows_data[k].status = Txt(st)}

\* C15 as stated: in the deals summary the count of each status of the fixed set
\* is the number of rows with that status and its sum is the total of their
\* numeric amounts, a missing or non-numeric amount adding 0
C15_DealsSummaryByStatus ==
    DealsExported =>
        \A j \in 1..4 :
            /\ CountCell(j).n = Cardinality(RowsWithStatus(DealOrder[j]))
            /\ SumCell(j).n = SumAdded(rows_data, RowsWithStatus(DealOrder[j]))

\* the rows counted under the j-th status: those with that status and, under
\* draft, those with a missing or empty status
RowsGroupedAs(j) ==
    {k \in 1..Len(rows_data) :
        \/ rows_data[k].status = Txt(DealOrder[j])
        \/ j = 1 /\ Falsy(rows_data[k].status)}

\* C15 amended: the count of each status of the fixed set is the number of rows
\* with that status, rows with a missing or empty status counting as draft, and
\* its sum is the total of the numeric amounts of those rows rounded to two
\* decimals, a missing or non-numeric amount adding 0
C15_DealsSummaryDraftDefaultRounded ==
    DealsExported =>
        \A j \in 1..4 :
            LET total == SumAdded(rows_data, RowsGroupedAs(j))
            IN /\ CountCell(j).n = Cardinality(RowsGroupedAs(j))
               /\ SumCell(j).t = "float"
               /\ SumCell(j).n % 10 = 0
               /\ SumCell(j).n - total <= 5
               /\ total - SumCell(j).n <= 5

\* amounts 100 and 200 under draft and 300 under won
C15_Witness ==
    /\ DealsExported
    /\ Len(rows_data) = 3
    /\ rows_data[1].status = Txt(StDraft) /\ rows_data[1].amount = Real(100000)
    /\ rows_data[2].status = Txt(StDraft) /\ rows_data[2].amount = Real(200000)
    /\ rows_data[3].status = Txt(StWon) /\ rows_data[3].amount = Real(300000)
    /\ CountCell(1) = Num(2) /\ SumCell(1) = Real(300000)
    /\ CountCell(3) = Num(1) /\ SumCell(3) = Real(300000)

\* C16: an export of the endpoint over an empty record set writes a matrix with
\* a summary block of placeholder values and a record count of 0, then the
\* header row with no data row under it, and answers without an error
C16_EmptyExportSucceeds ==
    (caller = "router" /\ rows_data = <<>>) =>
        /\ RowsOfKind("summary") = {2, 3, 4, 5}
        /\ values[3].cells[2] = Lit("-")
        /\ values[4].cells[2] = Lit("-")
        /\ values[5].cells[2] = Num(0)
        /\ HeaderIndex = Len(values)
        /\ layoutResp = 200

\* C17: no text cell of a data row written by an export of the endpoints
\* begins with +, =, - or @: such a value is written behind a quote mark
C17_FormulaCellsQuoted ==
    caller = "router" =>
        \A i \in RowsOfKind("data") : \A j \in 1..RowLen(i) :
            LET c == values[i].cells[j]
            IN ~(c.t = "str" /\ c.s # <<>> /\ c.s[1] \in FormulaChars)

\* C18: the data rows of an export follow the record ids in strictly ascending
\* order and the first cell of the k-th data row is the number k
C18_RowsAscendingAndNumbered ==
    caller \in {"router", "main"} =>
        \A k \in 1..Len(rows_data) :
            /\ values[HeaderIndex + k].cells[1] = Txt(IntToStr(k))
            /\ k < Len(rows_data) => rows_data[k].id < rows_data[k + 1].id

(***************************************************************************)
(* Part 5: list_export_files behind GET /export/files                      *)
(***************************************************************************)
\* documents with a report-like name that are uploaded one by one
MaxDocs == 2

\* pageSize of the files().list request
PageSize == 100

\* a value of the settings object that is a JSON number, not a string
JsonNumber == "<number 5>"

\* the section tags that SECTION_PREFIXES does not hold
UnknownSections == {"", "reports"}

Spreadsheet == "application/vnd.google-apps.spreadsheet"
Document == "application/vnd.google-apps.document"

\* "CRM - Otchet " : what the three prefixes have in common (transliterated)
CrmPrefix == <<"C", "R", "M", " ", "-", " ", "O", "t", "c", "h", "e", "t", " ">>

\* SECTION_PREFIXES.get(section): the prefix, character by character
SectionPrefix(s) ==
    CASE s = "clients" -> CrmPrefix \o <<"K", "l", "i", "e", "n", "t", "y">>
      [] s = "deals" -> CrmPrefix \o <<"S", "d", "e", "l", "k", "i">>
      [] s = "tasks" -> CrmPrefix \o <<"Z", "a", "d", "a", "c", "h", "i">>
      [] OTHER -> <<>>

\* name.startswith(prefix)
StartsWith(name, prefix) ==
    Len(name) >= Len(prefix) /\ SubSeq(name, 1, Len(prefix)) = prefix

\* the name of the spreadsheets that have nothing to do with the reports
OtherName == <<"B", "u", "d", "g", "e", "t">>

\* names of uploaded documents: a report of clients, a report of deals, a
\* copy of a report ("Kopiya CRM - ..."), a name one character short of the prefix
NameSamples ==
    { SectionPrefix("clients") \o <<" ", "1">>,
      SectionPrefix("deals") \o <<" ", "1">>,
      <<"K", "o", "p", "i", "y", "a", " ">> \o SectionPrefix("clients"),
      SubSeq(SectionPrefix("clients"), 1, Len(SectionPrefix("clients")) - 1) }

Folders == {"root", "F"}

\* a document of the Drive; id and modifiedTime are its rank in upload order
DriveFile(name, mime, parent, trashed) ==
    [id |-> Len(drive) + 1, name |-> name, mimeType |-> mime, parent |-> parent,
     trashed |-> trashed, modifiedTime |-> Len(drive) + 1]

\* the documents that are uploaded one by one: spreadsheets of the root folder
\* under each name, reports of the other folder, a report that is trashed, a
\* report that is a text document
DocSamples ==
    [name : NameSamples, mimeType : {Spreadsheet}, parent : {"root"}, trashed : {FALSE}]
    \cup [name : {SectionPrefix("clients") \o <<" ", "1">>,
                  SectionPrefix("deals") \o <<" ", "1">>},
          mimeType : {Spreadsheet}, parent : {"F"}, trashed : {FALSE}]
    \cup {[name |-> SectionPrefix("clients") \o <<" ", "1">>, mimeType |-> Spreadsheet,
           parent |-> "root", trashed |-> TRUE],
          [name |-> SectionPrefix("clients") \o <<" ", "1">>, mimeType |-> Document,
           parent |-> "root", trashed |-> FALSE]}

ReportLike == {i \in DOMAIN drive : drive[i].name # OtherName}

\* a document is uploaded to the Drive, before the list is asked for
DriveCreate(d) ==
    /\ listSection = None
    /\ Cardinality(ReportLike) < MaxDocs
    /\ drive' = Append(drive, DriveFile(d.name, d.mimeType, d.parent, d.trashed))
    /\ UNCHANGED <<colVars, otherVars, envVars, exportVars, saveVars, layoutVars,
                   listSection, listCalls, listResp>>

\* PageSize spreadsheets of another kind are uploaded to one folder
DriveImport(parent) ==
    /\ listSection = None
    /\ ReportLike = DOMAIN drive
    /\ drive' = drive \o [k \in 1..PageSize |->
                    [id |-> Len(drive) + k, name |-> OtherName, mimeType |-> Spreadsheet,
                     parent |-> parent, trashed |-> FALSE,
                     modifiedTime |-> Len(drive) + k]]
    /\ UNCHANGED <<colVars, otherVars, envVars, exportVars, saveVars, layoutVars,
                   listSection, listCalls, listResp>>

\* settings.get(key)
Get(d, k) == IF d[k] = Absent THEN None ELSE d[k]

\* Path(path) of line 34 raises TypeError for a truthy value that is not a string
ResolveRaises(v) == v = JsonNumber

\* lines 250-253: the folder the query names
QueryParent(fid) == IF Truthy(fid) /\ fid # "root" THEN fid ELSE "root"

\* q of lines 249-253 as the remote service applies it
MatchesQuery(f, fid) ==
    /\ ~f.trashed
    /\ f.mimeType = Spreadsheet
    /\ f.parent = QueryParent(fid)

\* orderBy="modifiedTime desc": the Drive holds its documents by ascending
\* modifiedTime (DriveFile), the answer has them the other way round
OrderByModifiedDesc(fs) == [k \in 1..Len(fs) |-> fs[Len(fs) + 1 - k]]

\* the first page of the answer: pageSize documents, nextPageToken is not followed
FirstPage(fs) == SubSeq(fs, 1, IF Len(fs) < PageSize THEN Len(fs) ELSE PageSize)

\* client._service.files().list(...).execute() of lines 255-264
FilesList(fid) ==
    FirstPage(OrderByModifiedDesc(SelectSeq(drive, LAMBDA f : MatchesQuery(f, fid))))

\* lines 267-270: the entry returned for a document
Entry(f) == [id |-> f.id, name |-> f.name, modifiedTime |-> f.modifiedTime]

\* lines 265-270: the client-side filter and the projection
Reported(fs, prefix) ==
    LET out == SelectSeq(fs, LAMBDA f : StartsWith(f.name, prefix))
    IN  [k \in 1..Len(out) |-> Entry(out[k])]

\* lines 244-247: the client that is built, and whether building it succeeds
ClientBuilt(client_secret) ==
    IF Truthy(client_secret) THEN "GoogleDriveUserClient" ELSE "GoogleDriveClient"

ClientOutcomes(client_secret, creds) ==
    IF Truthy(client_secret) THEN {UserCredsOutcome} ELSE ServiceCredsOutcomes(creds)

ListAnswer(status, detail, fs) == [status |-> status, detail |-> detail, files |-> fs]

\* GET /export/files?section=sec: list_files and list_export_files as a whole
ListFiles(sec) ==
    LET st == ReadGoogleSettings
        creds == Get(st, "credentials_path")
        client_secret == Get(st, "client_secret_path")
        fid == Get(st, "folder_id")
        prefix == SectionPrefix(sec)
    IN  /\ listSection' = sec
        /\ IF ResolveRaises(creds) \/ ResolveRaises(client_secret)
           THEN /\ listCalls' = <<>>
                /\ listResp' = ListAnswer(500, "TypeError", <<>>)
           ELSE IF prefix = <<>>
           THEN /\ listCalls' = <<>>
                /\ listResp' = ListAnswer(200, None, <<>>)
           ELSE \E o \in ClientOutcomes(client_secret, ResolveCredsPath(creds)) :
                    IF o # "ok"
                    THEN /\ listCalls' = <<ClientBuilt(client_secret)>>
                         /\ listResp' = ListAnswer(500, o, <<>>)
                    ELSE /\ listCalls' = <<ClientBuilt(client_secret), "files.list">>
                         /\ listResp' = ListAnswer(200, None, Reported(FilesList(fid), prefix))
        /\ UNCHANGED <<colVars, otherVars, envVars, exportVars, saveVars, layoutVars, drive>>

\* a settings object over the observed keys
SettingsOf(fid, creds, client_secret) ==
    [k \in SettingKeys |->
        CASE k = "folder_id" -> fid
          [] k = "credentials_path" -> creds
          [] k = "client_secret_path" -> client_secret
          [] OTHER -> Absent]

\* the configurations a report list is asked under: a valid service key with
\* each way of naming the folder, a delegated user with a saved token, nothing
\* configured and no key in the environment, a credentials_path saved as a number
ListEnvs ==
    { [fid |-> f, creds |-> "path", client_secret |-> Absent, svcFile |-> "valid",
       secretFile |-> "absent", userToken |-> "none"] : f \in {Absent, "root", "F"} }
    \cup
    { [fid |-> "F", creds |-> Absent, client_secret |-> "path", svcFile |-> "absent",
       secretFile |-> "valid", userToken |-> "valid"],
      [fid |-> Absent, creds |-> Absent, client_secret |-> Absent, svcFile |-> "absent",
       secretFile |-> "absent", userToken |-> "none"],
      [fid |-> Absent, creds |-> JsonNumber, client_secret |-> Absent,
       svcFile |-> "absent", secretFile |-> "absent", userToken |-> "none"] }

InitList ==
    /\ colN = 1
    /\ colOut = NotCalled
    /\ \E env \in ListEnvs :
        /\ settings = SettingsOf(env.fid, env.creds, env.client_secret)
        /\ svcFile = env.svcFile
        /\ secretFile = env.secretFile
        /\ userToken = env.userToken
    /\ envCred = "none"
    /\ ExportsIdle
    /\ spc = [w \in Savers |-> "idle"]
    /\ payload = [w \in Savers |-> NoSave]
    /\ data = [w \in Savers |-> EmptyDict]
    /\ committed = settings
    /\ fileBeforeWrite = [w \in Savers |-> EmptyDict]
    /\ writeOrder = <<>>
    /\ LayoutIdle
    /\ ListIdle
    /\ OtherIdle

NextList ==
    \/ \E d \in DocSamples : DriveCreate(d)
    \/ \E parent \in Folders : DriveImport(parent)
    \/ \E sec \in Sections \cup UnknownSections : ListFiles(sec)

SpecList == InitList /\ [][NextList]_vars

(***************************************************************************)
(* Claims C19, C20                                                         *)
(***************************************************************************)
\* the request for the report list has been answered
Listed == listResp # NoList

\* the folder the settings name, root when none is set
ConfiguredFolder ==
    LET fid == Get(ReadGoogleSettings, "folder_id")
    IN  IF fid \in {None, ""} THEN "root" ELSE fid

\* the documents the list is to hold: not trashed, spreadsheets, in the
\* configured folder, with a name that starts with the prefix of the section
Wanted(sec) ==
    SelectSeq(drive, LAMBDA f :
        /\ ~f.trashed
        /\ f.mimeType = Spreadsheet
        /\ f.parent = ConfiguredFolder
        /\ StartsWith(f.name, SectionPrefix(sec)))

\* C19: for a known section a list that is returned holds exactly the
\* non-trashed spreadsheets of the configured folder (root when unset) whose
\* name starts with the prefix of the section, every one of them and no
\* other, ordered by last-modified time descending.
C19_ListIsExactlyTheReports ==
    (Listed /\ listSection \in Sections /\ listResp.status = 200) =>
        /\ {e.id : e \in {listResp.files[k] : k \in 1..Len(listResp.files)}}
             = {f.id : f \in {Wanted(listSection)[k] : k \in 1..Len(Wanted(listSection))}}
        /\ Len(listResp.files) = Len(Wanted(listSection))
        /\ \A k \in 1..(Len(listResp.files) - 1) :
             listResp.files[k].modifiedTime >= listResp.files[k + 1].modifiedTime

\* C20: a report list asked with a section tag that is not clients, deals or
\* tasks is answered with an empty list and no error, no client having been
\* built and no remote call issued, whatever the settings hold.
C20_UnknownSectionEmptyNoCalls ==
    (Listed /\ listSection \in UnknownSections) =>
        /\ listResp.status = 200
        /\ listResp.files = <<>>
        /\ listCalls = <<>>

(***************************************************************************)
(* Part 6: the endpoints that read the store, and the store they leave     *)
(***************************************************************************)
\* the records created before an export or a list is asked for: the samples
\* without phone, notes, description and due date, with an amount of 100
FrameSamples(sec) ==
    CASE sec = "clients" ->
            {smp \in ClientSamples : smp.phone = NoneCell /\ smp.notes = NoneCell}
      [] sec = "deals" -> {smp \in DealSamples : smp.amount = Real(100000)}
      [] OTHER ->
            {smp \in TaskSamples : smp.description = NoneCell /\ smp.due_date = NoneCell}

InitRead ==
    /\ colN = 1
    /\ colOut = NotCalled
    /\ \E env \in {e \in ListEnvs : e.fid = Absent /\ e.creds # JsonNumber} :
        /\ settings = SettingsOf(env.fid, env.creds, env.client_secret)
        /\ svcFile = env.svcFile
        /\ secretFile = env.secretFile
        /\ userToken = env.userToken
    /\ envCred = "none"
    /\ ExportsIdle
    /\ spc = [w \in Savers |-> "idle"]
    /\ payload = [w \in Savers |-> NoSave]
    /\ data = [w \in Savers |-> EmptyDict]
    /\ committed = settings
    /\ fileBeforeWrite = [w \in Savers |-> EmptyDict]
    /\ writeOrder = <<>>
    /\ ListIdle
    /\ OtherIdle
    /\ tableSection \in Sections
    /\ table = <<>>
    /\ nextId = 1
    /\ NotExported

NextRead ==
    \/ \E smp \in FrameSamples(tableSection) : CreateRecord(smp)
    \/ \E i \in 1..MaxRecords : DeleteRecord(i)
    \/ ExportViaRouter
    \/ ExportViaMain
    \/ \E sec \in Sections \cup UnknownSections : ListFiles(sec)

SpecRead == InitRead /\ [][NextRead]_vars

\* C21: a step in which an export or a report list is answered, with success
\* or with an error, leaves the record store as it was: the same records
\* under the same ids, and the same id sequence.
C21_ExportAndListLeaveStore ==
    [][(caller' # caller \/ listResp' # listResp \/ listSection' # listSection)
          => (table' = table /\ nextId' = nextId /\ tableSection' = tableSection)]_vars

\* a failed export and a report list have been answered over a store that
\* holds a record and has lost one
C21_Witness ==
    /\ Exported /\ layoutResp = 500
    /\ Listed
    /\ DOMAIN table # {}
    /\ Cardinality(DOMAIN table) < nextId - 1

(***************************************************************************)
(* Part 7: the record endpoints (routers/clients.py, deals.py, tasks.py)   *)
(* over the SQLite store of database.py                                    *)
(***************************************************************************)
\* the record ids the requests name, and the ids a table may come to hold
StoreIds == {1, 2}

\* writes that the store commits in one observed run
MaxWrites == 3

\* a field that a PATCH body does not set (exclude_unset drops it)
Unset == [t |-> "unset", s |-> <<>>, n |-> 0]

\* what get answers with when no row has the id: None
NoRow == [id |-> 0]

\* x or None
OrNone(c) == IF Falsy(c) THEN NoneCell ELSE c

\* _now_iso() at store time t
Stamp(t) == Txt(IsoStamp(t))

\* bodies of POST /clients: an email that is empty, an email that is not
ClientBodies ==
    {[name |-> Txt(<<"A">>), email |-> e, phone |-> NoneCell, status |-> Txt(StActive),
      notes |-> NoneCell] : e \in {Blank, Txt(<<"e">>)}}

\* bodies of POST /deals: no client and empty notes, client 1 and no notes
DealBodies ==
    {[title |-> Txt(<<"D">>), client_id |-> NoneCell, amount |-> Real(100000),
      status |-> Txt(StDraft), notes |-> Blank],
     [title |-> Txt(<<"D">>), client_id |-> Num(1), amount |-> Real(100000),
      status |-> Txt(StDraft), notes |-> NoneCell]}

\* bodies of POST /tasks: no references and an empty description, client 1 and deal 1
TaskBodies ==
    {[title |-> Txt(<<"T">>), description |-> Blank, client_id |-> NoneCell,
      deal_id |-> NoneCell, is_completed |-> Num(0), due_date |-> NoneCell],
     [title |-> Txt(<<"T">>), description |-> NoneCell, client_id |-> Num(1),
      deal_id |-> Num(1), is_completed |-> Num(0), due_date |-> NoneCell]}

Bodies(sec) ==
    CASE sec = "clients" -> ClientBodies
      [] sec = "deals" -> DealBodies
      [] OTHER -> TaskBodies

\* the fields that the INSERT of a section passes through "or None"
BlankToNull(sec) ==
    CASE sec = "clients" -> {"email", "phone", "notes"}
      [] sec = "deals" -> {"notes"}
      [] OTHER -> {"description"}

\* 1 if is_completed else 0
BoolToInt(c) == Num(IF Falsy(c) THEN 0 ELSE 1)

\* the value the INSERT binds for field f of the body
InsertValue(sec, f, c) ==
    IF f \in BlankToNull(sec) THEN OrNone(c)
    ELSE IF f = "is_completed" THEN BoolToInt(c)
    ELSE c

\* the row client_create, deal_create, task_create insert and return
InsertedRow(sec, i, body, t) ==
    [id |-> i, created_at |-> Stamp(t), updated_at |-> Stamp(t)]
    @@ [f \in DOMAIN body |-> InsertValue(sec, f, body[f])]

\* an id taken as one more than the largest id the table holds
NextRowIdReused(sec) ==
    IF DOMAIN db[sec] = {} THEN 1
    ELSE 1 + CHOOSE m \in DOMAIN db[sec] : \A j \in DOMAIN db[sec] : j <= m

\* id INTEGER PRIMARY KEY AUTOINCREMENT: one more than the last id ever given
NextRowId(sec) == seq[sec] + 1

Answer(op, status, missing) == [op |-> op, status |-> status, missing |-> missing]

\* POST /{section}: create
Create(sec, body) ==
    /\ now < MaxWrites
    /\ NextRowId(sec) \in StoreIds
    /\ LET i == NextRowId(sec)
           row == InsertedRow(sec, i, body, now)
       IN  /\ db' = [db EXCEPT ![sec] = [j \in DOMAIN @ \cup {i} |->
                                            IF j = i THEN row ELSE @[j]]]
           /\ seq' = [seq EXCEPT ![sec] = i]
           /\ made' = [made EXCEPT ![sec] = [j \in DOMAIN @ \cup {i} |->
                                                IF j = i THEN body ELSE @[j]]]
    /\ now' = now + 1
    /\ apiResp' = Answer("create", 200, FALSE)
    /\ UNCHANGED <<colVars, envVars, exportVars, saveVars, layoutVars, listVars, getVars,
                   removed, changed>>

\* client_get, deal_get, task_get
GetRow(sec, i) == IF i \in DOMAIN db[sec] THEN db[sec][i] ELSE NoRow

\* the endpoints' "if not row: raise HTTPException(status_code=404)"
RowStatus(row) == IF row = NoRow THEN 404 ELSE 200

\* GET /{section}/{id}
GetById(sec, i) ==
    /\ apiResp' = Answer("get", RowStatus(GetRow(sec, i)), i \notin DOMAIN db[sec])
    /\ UNCHANGED <<colVars, envVars, exportVars, saveVars, layoutVars, listVars, getVars,
                   db, seq, now, made, removed, changed>>

\* the fields a PATCH body of the section may set
PatchFields(sec) ==
    CASE sec = "clients" -> {"name", "email", "phone", "status", "notes"}
      [] sec = "deals" -> {"title", "client_id", "amount", "status", "notes"}
      [] OTHER -> {"title", "description", "client_id", "deal_id", "is_completed",
                   "due_date"}

\* a PATCH body that sets field k to v and nothing else
PatchOf(sec, k, v) == [f \in PatchFields(sec) |-> IF f = k THEN v ELSE Unset]

\* the PATCH bodies used: a field set, a field set to null
Patches(sec) ==
    CASE sec = "clients" ->
            {PatchOf(sec, "notes", Txt(<<"n">>)), PatchOf(sec, "name", NoneCell)}
      [] sec = "deals" ->
            {PatchOf(sec, "client_id", Num(2)), PatchOf(sec, "status", NoneCell)}
      [] OTHER ->
            {PatchOf(sec, "deal_id", Num(2)), PatchOf(sec, "is_completed", NoneCell)}

\* the keys of the dict updates of client_update, deal_update, task_update
UpdateKeys(sec, patch) ==
    IF sec = "clients"
    THEN {k \in PatchFields(sec) :
            /\ patch[k] # Unset
            /\ patch[k] # NoneCell \/ k \in {"email", "phone", "notes"}}
    ELSE {k \in PatchFields(sec) : patch[k] # Unset}

\* the value the UPDATE binds for field k
UpdateValue(k, c) == IF k = "is_completed" THEN BoolToInt(c) ELSE c

\* the columns declared NOT NULL that an UPDATE may name
NotNullCols == {"name", "title", "status", "is_completed"}

\* the row after SET k = ?, ..., updated_at = ?
Patched(row, keys, patch, t) ==
    [f \in DOMAIN row |->
        IF f \in keys THEN UpdateValue(f, patch[f])
        ELSE IF f = "updated_at" THEN Stamp(t)
        ELSE row[f]]

\* a statement that inserts the row when no row has the id
RowsUpserted(tb, i, keys, patch, t) ==
    [j \in DOMAIN tb \cup {i} |->
        IF j # i THEN tb[j]
        ELSE IF i \in DOMAIN tb THEN Patched(tb[i], keys, patch, t)
        ELSE [id |-> i, updated_at |-> Stamp(t)]]

\* UPDATE ... WHERE id = ?
RowsUpdated(tb, i, keys, patch, t) ==
    [j \in DOMAIN tb |-> IF j = i THEN Patched(tb[j], keys, patch, t) ELSE tb[j]]

\* the UPDATE raises IntegrityError: a row has the id and a NOT NULL column is
\* set to null
UpdateViolates(tb, i, keys, patch) ==
    /\ i \in DOMAIN tb
    /\ \E k \in keys \cap NotNullCols : UpdateValue(k, patch[k]) = NoneCell

\* client_update, deal_update, task_update and the endpoint's answer: the table
\* they leave and the status
UpdateOutcome(sec, i, patch) ==
    LET tb == db[sec]
        keys == UpdateKeys(sec, patch)
    IN  IF keys = {}
        THEN [table |-> tb, status |-> RowStatus(GetRow(sec, i))]
        ELSE IF UpdateViolates(tb, i, keys, patch)
        THEN [table |-> tb, status |-> 500]
        ELSE LET after == RowsUpdated(tb, i, keys, patch, now)
             IN  [table |-> after,
                  status |-> IF i \in DOMAIN after THEN 200 ELSE 404]

\* a request that ends in client_update, deal_update or task_update
Write(op, sec, i, patch) ==
    LET out == UpdateOutcome(sec, i, patch)
        wrote == out.table # db[sec]
    IN  /\ wrote => now < MaxWrites
        /\ db' = [db EXCEPT ![sec] = out.table]
        /\ now' = IF wrote THEN now + 1 ELSE now
        /\ changed' = IF wrote THEN [changed EXCEPT ![sec] = @ \cup {i}] ELSE changed
        /\ apiResp' = Answer(op, out.status, i \notin DOMAIN db[sec])
        /\ UNCHANGED <<colVars, envVars, exportVars, saveVars, layoutVars, listVars, getVars,
                       seq, made, removed>>

\* PATCH /{section}/{id}
Update(sec, i, patch) == Write("update", sec, i, patch)

\* POST /clients/{id}/archive: client_update(client_id, status="archived")
Archive(i) == Write("archive", "clients", i, PatchOf("clients", "status", Txt(StArchived)))

\* POST /tasks/{id}/complete: task_update(task_id, is_completed=completed)
Complete(i, completed) ==
    Write("complete", "tasks", i, PatchOf("tasks", "is_completed", completed))

\* the endpoints' "if not db.client_delete(id): raise HTTPException(404)"
DeleteStatus(sec, i) == IF i \in DOMAIN db[sec] THEN 200 ELSE 404

\* DELETE /{section}/{id}: DELETE FROM ... WHERE id = ?, rowcount > 0
Delete(sec, i) ==
    /\ i \in DOMAIN db[sec] => now < MaxWrites
    /\ db' = [db EXCEPT ![sec] = [j \in DOMAIN @ \ {i} |-> @[j]]]
    /\ now' = IF i \in DOMAIN db[sec] THEN now + 1 ELSE now
    /\ removed' = IF i \in DOMAIN db[sec] THEN [removed EXCEPT ![sec] = @ \cup {i}]
                  ELSE removed
    /\ apiResp' = Answer("delete", DeleteStatus(sec, i), i \notin DOMAIN db[sec])
    /\ UNCHANGED <<colVars, envVars, exportVars, saveVars, layoutVars, listVars, getVars,
                   seq, made, changed>>

InitStore ==
    /\ colN = 1
    /\ colOut = NotCalled
    /\ EnvFixed
    /\ ExportsIdle
    /\ SaveIdle
    /\ LayoutIdle
    /\ ListIdle
    /\ StoreIdle
    /\ GetIdle

NextStore ==
    \/ \E sec \in Sections : \E body \in Bodies(sec) : Create(sec, body)
    \/ \E sec \in Sections, i \in StoreIds : GetById(sec, i)
    \/ \E sec \in Sections, i \in StoreIds : \E patch \in Patches(sec) : Update(sec, i, patch)
    \/ \E i \in StoreIds : Archive(i)
    \/ \E i \in StoreIds, completed \in {Num(0), Num(1)} : Complete(i, completed)
    \/ \E sec \in Sections, i \in StoreIds : Delete(sec, i)

SpecStore == InitStore /\ [][NextStore]_vars

(***************************************************************************)
(* The record endpoints: C22, C23, C30 (checked under SpecStore)           *)
(***************************************************************************)
OnMissingOps == {"get", "update", "delete", "archive", "complete"}

\* C22: a get, update, delete, archive or complete that names an id no row of
\* the table has is answered 404 and leaves every table and every id sequence
\* as it was, in each of the three sections.
C22_MissingIdAnswers404 ==
    [][(apiResp'.op \in OnMissingOps /\ apiResp'.missing)
          => (apiResp'.status = 404 /\ db' = db /\ seq' = seq)]_vars

\* an archive and a complete on a missing id have been answered while the
\* other id of the table is held
C22_Witness ==
    /\ apiResp.op = "complete" /\ apiResp.missing /\ apiResp.status = 404
    /\ Cardinality(DOMAIN db["tasks"]) = 1
    /\ removed["tasks"] # {}

\* the ids of a section that a create has returned and no update has written since
Untouched(sec) == DOMAIN made[sec] \ (removed[sec] \cup changed[sec])

\* after a successful delete of i, get(i) and another delete(i) answer 404
GoneStays404 ==
    \A sec \in Sections : \A i \in removed[sec] :
        /\ RowStatus(GetRow(sec, i)) = 404
        /\ DeleteStatus(sec, i) = 404

\* C23 as stated: get(i) returns the record with every field as it was submitted
\* to the create, whatever was done to other ids, until delete(i) succeeds;
\* after that get(i) and a second delete(i) answer 404.
C23_GetReturnsSubmittedFields ==
    /\ \A sec \in Sections : \A i \in Untouched(sec) :
          /\ RowStatus(GetRow(sec, i)) = 200
          /\ GetRow(sec, i).id = i
          /\ \A f \in DOMAIN made[sec][i] : GetRow(sec, i)[f] = made[sec][i][f]
    /\ GoneStays404

\* C23 amended: get(i) returns the record that the create returned, with the
\* submitted fields, an empty email, phone or notes of a client, empty notes of
\* a deal and an empty description of a task having become null; after a
\* successful delete(i), get(i) and a second delete(i) answer 404.
C23_GetReturnsStoredFields ==
    /\ \A sec \in Sections : \A i \in Untouched(sec) :
          /\ RowStatus(GetRow(sec, i)) = 200
          /\ GetRow(sec, i).id = i
          /\ \A f \in DOMAIN made[sec][i] :
                GetRow(sec, i)[f] = IF f \in BlankToNull(sec) /\ made[sec][i][f] = Blank
                                    THEN NoneCell ELSE made[sec][i][f]
    /\ GoneStays404

\* record 1 of clients is as created after record 2 was created and deleted,
\* and a get has just been answered
C23_Witness ==
    /\ 1 \in Untouched("clients")
    /\ 2 \in removed["clients"]
    /\ apiResp.op = "get"

\* C30: every client_id of a deal and every client_id and deal_id of a task is
\* absent or the id of a row the referenced table holds.
C30_ReferencesResolve ==
    /\ \A i \in DOMAIN db["deals"] :
          db["deals"][i].client_id = NoneCell
          \/ db["deals"][i].client_id.n \in DOMAIN db["clients"]
    /\ \A i \in DOMAIN db["tasks"] :
          /\ db["tasks"][i].client_id = NoneCell
             \/ db["tasks"][i].client_id.n \in DOMAIN db["clients"]
          /\ db["tasks"][i].deal_id = NoneCell
             \/ db["tasks"][i].deal_id.n \in DOMAIN db["deals"]

(***************************************************************************)
(* Part 8: GET /settings/google beside a settings save                     *)
(***************************************************************************)
\* get_google_settings: return read_google_settings()
GetGoogleSettings ==
    /\ getResp' = [asked |-> TRUE, body |-> ReadGoogleSettings]
    /\ UNCHANGED <<colVars, envVars, exportVars, saveVars, layoutVars, listVars, storeVars>>

InitGet ==
    /\ colN = 1
    /\ colOut = NotCalled
    /\ settings \in InitialFiles
    /\ svcFile = "absent"
    /\ envCred = "none"
    /\ secretFile = "absent"
    /\ userToken = "none"
    /\ ExportsIdle
    /\ spc = [w \in Savers |-> "idle"]
    /\ payload = [w \in Savers |-> NoSave]
    /\ data = [w \in Savers |-> EmptyDict]
    /\ committed = settings
    /\ fileBeforeWrite = [w \in Savers |-> EmptyDict]
    /\ writeOrder = <<>>
    /\ LayoutIdle
    /\ ListIdle
    /\ OtherIdle

\* one request saves settings while the settings are asked for
NextGet ==
    \/ \E p \in Payloads(1) : SaveRead(1, p)
    \/ SaveOpen(1)
    \/ SaveDump(1)
    \/ GetGoogleSettings

SpecGet == InitGet /\ [][NextGet]_vars

\* C24: whatever the settings file is (missing, unparsable, written or not),
\* the object GET /settings/google answers with holds the keys folder_id and
\* credentials_path.
C24_SettingsAnswerHasKeys ==
    getResp.asked => {"folder_id", "credentials_path"} \subseteq KeysOf(getResp.body)

C25_EndpointRangeCoversMatrix ==
    caller \in {"router", "main"} =>
        /\ range_name.row = Len(values)
        /\ range_name.col = ColLetter(MatrixWidth)

(***************************************************************************)
(* The status column: C29 (checked under SpecLayout)                       *)
(***************************************************************************)
\* the keys of STATUS_COLORS_CLIENTS, STATUS_COLORS_DEALS, STATUS_COLORS_TASKS
StatusColors(sec) ==
    CASE sec = "clients" -> {Txt(StActive), Txt(StArchived)}
      [] sec = "deals" -> {Txt(StDraft), Txt(StInProgress), Txt(StWon), Txt(StLost)}
      [] OTHER -> {Lit("Da"), Lit("Net")}

\* the statuses of a client and of a deal (CLIENT_STATUS_*, DEAL_STATUS_*)
SectionStatuses(sec) ==
    CASE sec = "clients" -> {StActive, StArchived}
      [] sec = "deals" -> {StDraft, StInProgress, StWon, StLost}
      [] OTHER -> {}

\* the header of the status column of a section
StatusHeader(sec) == IF sec = "tasks" THEN Lit("Vypolneno") ELSE Lit("Status")

\* the cell of matrix row i at the 0-based column handed to formatting
StatusCell(i) == values[i].cells[fmt.status_col_index + 1]

\* C29: in an export of the endpoints of routers/export.py the status column
\* index handed to format_report_table (5 for clients and deals, 6 for tasks)
\* is the position of the status header in the header row; in every data row
\* the cell at that position is the status of the record of that row (for a
\* task: the yes/no text of is_completed), a task's cell is a key of
\* STATUS_COLORS_TASKS, and a client's or deal's cell holding one of the
\* statuses of the section is a key of the section's colour table
C29_StatusColumnPosition ==
    caller = "router" =>
        /\ fmt.status_col_index = IF tableSection = "tasks" THEN 6 ELSE 5
        /\ StatusCell(HeaderIndex) = StatusHeader(tableSection)
        /\ \A k \in 1..Len(rows_data) :
              LET c == StatusCell(HeaderIndex + k)
                  r == rows_data[k]
              IN IF tableSection = "tasks"
                 THEN /\ c = (IF r.is_completed = Num(1) THEN Lit("Da") ELSE Lit("Net"))
                      /\ c \in StatusColors("tasks")
                 ELSE /\ c = r.status
                      /\ r.status.s \in SectionStatuses(tableSection)
                            => c \in StatusColors(tableSection)

\* a tasks export with a completed and an open task, the index 6 handed over
C29_Witness ==
    /\ caller = "router"
    /\ tableSection = "tasks"
    /\ fmt.status_col_index = 6
    /\ \E j, k \in 1..Len(rows_data) :
          /\ StatusCell(HeaderIndex + j) = Lit("Da")
          /\ StatusCell(HeaderIndex + k) = Lit("Net")

(***************************************************************************)
(* Part 9: the names of the exported reports and the catalog of prefixes   *)
(***************************************************************************)
\* a title that the three endpoints share
ExportTitleShared(s) == CrmPrefix \o <<"K", "l", "i", "e", "n", "t", "y">>

\* the title export_clients, export_deals and export_tasks hand to
\* export_to_google_sheet, character by character (transliterated)
ExportTitle(s) ==
    CASE s = "clients" ->
            <<"C", "R", "M", " ", "-", " ", "O", "t", "c", "h", "e", "t", " ",
              "K", "l", "i", "e", "n", "t", "y">>
      [] s = "deals" ->
            <<"C", "R", "M", " ", "-", " ", "O", "t", "c", "h", "e", "t", " ",
              "S", "d", "e", "l", "k", "i">>
      [] OTHER ->
            <<"C", "R", "M", " ", "-", " ", "O", "t", "c", "h", "e", "t", " ",
              "Z", "a", "d", "a", "c", "h", "i">>

\* strftime('%Y-%m-%d %H-%M-%S') of the instant t, character by character
StrftimeChars(t) ==
    <<"2", "0", "2", "6", "-", "0", "1", "-", "0", "1", " ",
      "0", "0", "-", "0", "0", "-", "0", Digits[Strftime(t) + 1]>>

\* title_with_ts = f"{title} {timestamp}"
ExportName(s, t) == ExportTitle(s) \o <<" ">> \o StrftimeChars(t)

\* folder_id=fid or None: the folder the document is created in
CreateParent(fid) == IF Truthy(fid) THEN fid ELSE "root"

\* POST /export/<s> without a folder_id in the body, as the Drive sees it:
\* the document is created under title_with_ts in the folder of the settings
\* and stays there whatever the later steps of the export do; an export whose
\* Drive client cannot be built creates nothing
ExportDocument(s, t) ==
    LET st == ReadGoogleSettings
        creds == Get(st, "credentials_path")
        client_secret == Get(st, "client_secret_path")
        fid == Get(st, "folder_id")
    IN  /\ listSection = None
        /\ Cardinality(ReportLike) < MaxDocs
        /\ ~ResolveRaises(creds)
        /\ ~ResolveRaises(client_secret)
        /\ "ok" \in ClientOutcomes(client_secret, ResolveCredsPath(creds))
        /\ drive' = Append(drive, DriveFile(ExportName(s, t), Spreadsheet,
                                            CreateParent(fid), FALSE))
        /\ UNCHANGED <<colVars, otherVars, envVars, exportVars, saveVars, layoutVars,
                       listSection, listCalls, listResp>>

NextCatalog ==
    \/ \E d \in DocSamples : DriveCreate(d)
    \/ \E s \in Sections : \E t \in 0..MaxClock : ExportDocument(s, t)
    \/ \E sec \in Sections : ListFiles(sec)

SpecCatalog == InitList /\ [][NextCatalog]_vars

\* the document f carries the name an export of section s gives
ExportedFor(f, s) == \E t \in 0..MaxClock : f.name = ExportName(s, t)

\* the ids of the documents of the returned list
ListedIds == {listResp.files[k].id : k \in 1..Len(listResp.files)}

\* C28: the three sections have three different prefixes; the name an export
\* of section s gives its document starts with the prefix of s and with the
\* prefix of no other section; a returned list of section s holds every
\* document exported for s into the configured folder and no document
\* exported for another section
C28_OnePrefixPerSection ==
    /\ \A s, t \in Sections : SectionPrefix(s) = SectionPrefix(t) => s = t
    /\ \A i \in DOMAIN drive : \A s \in Sections :
          ExportedFor(drive[i], s) =>
              \A t \in Sections : StartsWith(drive[i].name, SectionPrefix(t)) <=> t = s
    /\ (Listed /\ listSection \in Sections /\ listResp.status = 200) =>
          \A i \in DOMAIN drive : \A s \in Sections :
              ExportedFor(drive[i], s) =>
                  (i \in ListedIds <=> s = listSection)

\* a deals export and a tasks export in the Drive, the list of deals holding
\* the deals export only
C28_Witness ==
    /\ Listed
    /\ listSection = "deals"
    /\ listResp.status = 200
    /\ Len(drive) = 2
    /\ ExportedFor(drive[1], "deals")
    /\ ExportedFor(drive[2], "tasks")
    /\ ListedIds = {1}

(***************************************************************************)
(* Part 10: settings saved while an export runs (checked under SpecSnap)   *)
(***************************************************************************)
\* POST /settings/google with credentials_path cp and client_secret_path csp
\* in the body (None: null or left out, the stored value stays): read, update
\* and write back; a path is saved for a credential file that exists
SaveCredentialSettings(cp, csp) ==
    /\ cp = "path" => svcFile # "absent"
    /\ csp = "path" => secretFile # "absent"
    /\ settings' = [credentials_path |->
                        IF cp # None THEN cp ELSE settings.credentials_path,
                    client_secret_path |->
                        IF csp # None THEN csp ELSE settings.client_secret_path]
    /\ settings' # settings
    /\ UNCHANGED <<colVars, restVars, exportVars, svcFile, envCred, secretFile, userToken>>

NextSnap ==
    \/ \E e \in Exports, s \in Sections : StartExport(e, s)
    \/ \E e \in Exports : CreateDocument(e)
    \/ \E e \in Exports : ShareWithService(e)
    \/ \E e \in Exports : OpenSheet(e)
    \/ \E e \in Exports : WriteValues(e)
    \/ \E e \in Exports : FormatReport(e)
    \/ \E cp, csp \in SettingValues : SaveCredentialSettings(cp, csp)

SpecSnap == Init /\ [][NextSnap]_vars

(***************************************************************************)
(* Claim C26                                                               *)
(***************************************************************************)
\* the remote calls request e has issued
CallsOf(e) == {calls[e][k] : k \in 1..Len(calls[e])}

\* the identity that creates the document under the locals of request e
SnapshotCreator(e) == IF Truthy(client_secret_path[e]) THEN "user" ELSE "service"

\* every step request e has taken used the credentials of its locals
UsesSnapshot(e) ==
    /\ \A c \in CallsOf(e) :
          /\ c.op = "create" =>
                /\ c.identity = SnapshotCreator(e)
                /\ SnapshotCreator(e) = "service"
                      => "ok" \in ServiceCredsOutcomes(creds_path[e])
          /\ c.op = "share" =>
                Truthy(client_secret_path[e]) /\ Truthy(creds_path[e])
          /\ c.op \in {"get", "write", "format"} =>
                /\ c.identity = "service"
                /\ "ok" \in ServiceCredsOutcomes(creds_path[e])
    /\ failedAt[e] = "sheets" =>
          response[e].detail \in ServiceCredsOutcomes(creds_path[e]) \cup {"RemoteError"}
    /\ (failedAt[e] = "create" /\ SnapshotCreator(e) = "service") =>
          response[e].detail \in ServiceCredsOutcomes(creds_path[e]) \cup {"RemoteError"}

\* C26: an export reads the settings once, when it starts: its locals
\* creds_path and client_secret_path are the values of the settings file at
\* that moment, no later step and no settings save changes them, and the
\* identity that creates the document, the service account that is granted
\* access and the credentials of the Sheets client that reads, writes and
\* formats are those of the locals, whatever the settings file holds by then
C26_SingleSettingsSnapshot ==
    /\ [][\A e \in Exports :
            (pc[e] = "idle" /\ pc'[e] # "idle") =>
                /\ creds_path'[e] = ResolveCredsPath(settings.credentials_path)
                /\ client_secret_path'[e] = ResolveCredsPath(settings.client_secret_path)]_vars
    /\ [][\A e \in Exports :
            pc[e] # "idle" =>
                /\ creds_path'[e] = creds_path[e]
                /\ client_secret_path'[e] = client_secret_path[e]]_vars
    /\ [](\A e \in Exports : UsesSnapshot(e))

\* an export that started in service mode with a valid key has written its
\* values after a save replaced both settings: the file now names no usable
\* service key and asks for the delegated mode
C26_Witness ==
    \E e \in Exports :
        /\ \E c \in CallsOf(e) : c.op = "write" /\ c.identity = "service"
        /\ \E c \in CallsOf(e) : c.op = "create" /\ c.identity = "service"
        /\ creds_path[e] = "path"
        /\ ~Truthy(client_secret_path[e])
        /\ settings.credentials_path = ""
        /\ Truthy(settings.client_secret_path)

(***************************************************************************)
(* Part 11: the formatting requests of an export (checked under SpecLayout)*)
(***************************************************************************)
\* a request of the batchUpdate body: its kind and its 0-based range, end
\* indexes exclusive
FormatRequest(kind, r0, r1, c0, c1) ==
    [kind |-> kind, startRow |-> r0, endRow |-> r1, startCol |-> c0, endCol |-> c1]

\* GoogleSheetsClient.format_report_table(sheet_name, num_rows, num_cols): the
\* requests of its one batchUpdate call: the style of the first row, the
\* borders of the table, wrapping of the rows below the first, the autosize
\* of the columns; no request depends on a status
FormatReportTable(num_rows, num_cols) ==
    <<FormatRequest("repeatCell", 0, 1, 0, num_cols),
      FormatRequest("updateBorders", 0, num_rows, 0, num_cols)>>
    \o (IF num_rows > 1
        THEN <<FormatRequest("repeatCell", 1, num_rows, 0, num_cols)>> ELSE <<>>)
    \o <<FormatRequest("autoResizeDimensions", 0, num_rows, 0, num_cols)>>

\* the formatting requests the export has sent: none when the call of
\* format_report_table raised
IssuedRequests ==
    IF caller \in {"router", "direct"} /\ layoutResp = 200
    THEN FormatReportTable(fmt.num_rows, fmt.num_cols) ELSE <<>>

\* the requests that colour the one cell of matrix row i (0-based) in the
\* status column
HighlightsOf(i) ==
    {j \in DOMAIN IssuedRequests :
        /\ IssuedRequests[j].kind = "repeatCell"
        /\ IssuedRequests[j].startRow = i
        /\ IssuedRequests[j].endRow = i + 1
        /\ IssuedRequests[j].startCol = fmt.status_col_index
        /\ IssuedRequests[j].endCol = fmt.status_col_index + 1}

\* C27: an export of the endpoints of routers/export.py formats without an
\* error, whatever the statuses of the records are, and for every data row
\* it sends exactly one highlighting request, confined to the cell of that
\* row in the status column
C27_StatusHighlightPerRow ==
    caller = "router" =>
        /\ layoutResp = 200
        /\ \A k \in 1..Len(rows) :
              Cardinality(HighlightsOf(fmt.data_start_row + k)) = 1

====
